---- MODULE Spec2Model ----
(***************************************************************************)
(* MagicScroll: the graph merge engine (ms_kuzu_store.py) over the Kuzu    *)
(* entity schema (db/schemas/kuzu_schema.py).  Entity spans are merged     *)
(* into per-variant node tables and linked to MSEntry nodes by             *)
(* store_entities_in_graph; several calls may be in progress at once and   *)
(* interleave at the granularity of one Cypher statement.                  *)
(*                                                                         *)
(* Strings whose characters the code inspects (span text, span label) are  *)
(* sequences of one-character strings, so that strip(), lower() and the    *)
(* substring tests are computed, not assumed.  Confidences are naturals:   *)
(* the code only compares them.                                            *)
(***************************************************************************)
EXTENDS Naturals, Sequences, FiniteSets

(* ------------------------------ bounds -------------------------------- *)
\* concurrent calls of store_entities_in_graph
NumCalls == 2
\* entities handed over by all calls together
MaxSpans == 2
\* largest value the clock reaches
MaxTime == 1
\* Cypher statements that raise, over a whole run
MaxFail == 1

(* ------------------------------ strings ------------------------------- *)
UpperChars == <<"A","B","C","D","E","F","G","H","I","J","K","L","M","N","O","P","Q","R","S","T","U","V","W","X","Y","Z">>
LowerChars == <<"a","b","c","d","e","f","g","h","i","j","k","l","m","n","o","p","q","r","s","t","u","v","w","x","y","z">>

\* str.strip() removes these (the ones that occur in the inputs)
WhiteSpace == {" ", "\t"}

LowerChar(c) ==
    IF \E k \in 1..Len(UpperChars) : UpperChars[k] = c
    THEN LowerChars[CHOOSE k \in 1..Len(UpperChars) : UpperChars[k] = c]
    ELSE c

\* str.lower()
Lower(s) == [k \in 1..Len(s) |-> LowerChar(s[k])]

\* str.strip()
Strip(s) ==
    LET keep == {k \in 1..Len(s) : s[k] \notin WhiteSpace}
    IN IF keep = {} THEN <<>>
       ELSE LET lo == CHOOSE k \in keep : \A m \in keep : k <= m
                hi == CHOOSE k \in keep : \A m \in keep : k >= m
            IN SubSeq(s, lo, hi)

\* Python's `term in text` on strings
IsSubstr(term, text) ==
    \E k \in 0..(Len(text) - Len(term)) : SubSeq(text, k + 1, k + Len(term)) = term

\* any(term in text for term in terms)
AnyIn(terms, text) == \E k \in 1..Len(terms) : IsSubstr(terms[k], text)

\* a variant that forgets .strip()
normalize_entity_name_lower_only(name) == Lower(name)

\* a variant that forgets .lower()
normalize_entity_name_strip_only(name) == Strip(name)

normalize_entity_name(name) == Lower(Strip(name))

(* --------------------------- vocabularies ----------------------------- *)
tech_indicators ==
    << <<"p","y","t","h","o","n">>, <<"j","a","v","a","s","c","r","i","p","t">>, <<"t","y","p","e","s","c","r","i","p","t">>, <<"r","u","s","t">>,
       <<"g","o">>, <<"j","a","v","a">>, <<"c","p","p">>, <<"c","+","+">>,
       <<"r","u","b","y">>, <<"p","h","p">>, <<"r","e","a","c","t">>, <<"v","u","e">>,
       <<"a","n","g","u","l","a","r">>, <<"d","j","a","n","g","o">>, <<"f","l","a","s","k">>, <<"f","a","s","t","a","p","i">>,
       <<"e","x","p","r","e","s","s">>, <<"n","e","x","t",".","j","s">>, <<"n","u","x","t">>, <<"p","o","s","t","g","r","e","s">>,
       <<"p","o","s","t","g","r","e","s","q","l">>, <<"m","y","s","q","l">>, <<"m","o","n","g","o","d","b">>, <<"r","e","d","i","s">>,
       <<"s","q","l","i","t","e">>, <<"e","l","a","s","t","i","c","s","e","a","r","c","h">>, <<"a","w","s">>, <<"g","c","p">>,
       <<"a","z","u","r","e">>, <<"d","o","c","k","e","r">>, <<"k","u","b","e","r","n","e","t","e","s">>, <<"t","e","r","r","a","f","o","r","m">>,
       <<"a","n","s","i","b","l","e">>, <<"g","i","t">>, <<"g","i","t","h","u","b">>, <<"g","i","t","l","a","b">>,
       <<"j","e","n","k","i","n","s">>, <<"c","i","r","c","l","e","c","i">>, <<"w","e","b","p","a","c","k">>, <<"v","i","t","e">>,
       <<"b","a","b","e","l">>, <<"p","y","t","o","r","c","h">>, <<"t","e","n","s","o","r","f","l","o","w">>, <<"t","r","a","n","s","f","o","r","m","e","r","s">>,
       <<"o","p","e","n","a","i">>, <<"a","n","t","h","r","o","p","i","c">>, <<"h","u","g","g","i","n","g","f","a","c","e">> >>

tech_terms_programming_language ==
    << <<"p","y","t","h","o","n">>, <<"j","a","v","a","s","c","r","i","p","t">>, <<"r","u","s","t">>, <<"g","o">>,
       <<"j","a","v","a">>, <<"c","p","p">>, <<"c","+","+">> >>

tech_terms_frontend_framework ==
    << <<"r","e","a","c","t">>, <<"v","u","e">>, <<"a","n","g","u","l","a","r">>, <<"s","v","e","l","t","e">> >>

tech_terms_backend_framework ==
    << <<"d","j","a","n","g","o">>, <<"f","l","a","s","k">>, <<"f","a","s","t","a","p","i">>, <<"e","x","p","r","e","s","s">> >>

tech_terms_database ==
    << <<"p","o","s","t","g","r","e","s">>, <<"m","y","s","q","l">>, <<"m","o","n","g","o","d","b">>, <<"r","e","d","i","s">> >>

tech_terms_infrastructure ==
    << <<"a","w","s">>, <<"g","c","p">>, <<"a","z","u","r","e">>, <<"d","o","c","k","e","r">>,
       <<"k","u","b","e","r","n","e","t","e","s">> >>

topic_terms_ai_ml ==
    << <<"m","a","c","h","i","n","e"," ","l","e","a","r","n","i","n","g">>, <<"a","i">>, <<"n","e","u","r","a","l">>, <<"m","o","d","e","l">> >>

topic_terms_web_development ==
    << <<"w","e","b">>, <<"f","r","o","n","t","e","n","d">>, <<"b","a","c","k","e","n","d">>, <<"a","p","i">> >>

topic_terms_business ==
    << <<"b","u","s","i","n","e","s","s">>, <<"s","t","r","a","t","e","g","y">>, <<"m","a","r","k","e","t">> >>

topic_terms_design ==
    << <<"d","e","s","i","g","n">>, <<"u","x">>, <<"u","i">> >>

\* a variant that tests the backend frameworks before the languages
categorize_entity_backend_first(entity_text, entity_type) ==
    LET entity_lower == Lower(entity_text)
    IN IF entity_type = "technology"
       THEN IF AnyIn(tech_terms_backend_framework, entity_lower) THEN "backend_framework"
            ELSE IF AnyIn(tech_terms_programming_language, entity_lower) THEN "programming_language"
            ELSE IF AnyIn(tech_terms_frontend_framework, entity_lower) THEN "frontend_framework"
            ELSE IF AnyIn(tech_terms_database, entity_lower) THEN "database"
            ELSE IF AnyIn(tech_terms_infrastructure, entity_lower) THEN "infrastructure"
            ELSE "general_tech"
       ELSE IF entity_type = "topic"
       THEN IF AnyIn(topic_terms_ai_ml, entity_lower) THEN "ai_ml"
            ELSE IF AnyIn(topic_terms_web_development, entity_lower) THEN "web_development"
            ELSE IF AnyIn(topic_terms_business, entity_lower) THEN "business"
            ELSE IF AnyIn(topic_terms_design, entity_lower) THEN "design"
            ELSE "general"
       ELSE "general"

categorize_entity(entity_text, entity_type) ==
    LET entity_lower == Lower(entity_text)
    IN IF entity_type = "technology"
       THEN IF AnyIn(tech_terms_programming_language, entity_lower) THEN "programming_language"
            ELSE IF AnyIn(tech_terms_frontend_framework, entity_lower) THEN "frontend_framework"
            ELSE IF AnyIn(tech_terms_backend_framework, entity_lower) THEN "backend_framework"
            ELSE IF AnyIn(tech_terms_database, entity_lower) THEN "database"
            ELSE IF AnyIn(tech_terms_infrastructure, entity_lower) THEN "infrastructure"
            ELSE "general_tech"
       ELSE IF entity_type = "topic"
       THEN IF AnyIn(topic_terms_ai_ml, entity_lower) THEN "ai_ml"
            ELSE IF AnyIn(topic_terms_web_development, entity_lower) THEN "web_development"
            ELSE IF AnyIn(topic_terms_business, entity_lower) THEN "business"
            ELSE IF AnyIn(topic_terms_design, entity_lower) THEN "design"
            ELSE "general"
       ELSE "general"

\* a variant that compares without .lower()
_is_technology_term_case_sensitive(text) == AnyIn(tech_indicators, text)

_is_technology_term(text) == AnyIn(tech_indicators, Lower(text))

(* ------------------------------ inputs -------------------------------- *)
L_person == <<"p","e","r","s","o","n">>
L_organization == <<"o","r","g","a","n","i","z","a","t","i","o","n">>
L_location == <<"l","o","c","a","t","i","o","n">>
L_technology == <<"t","e","c","h","n","o","l","o","g","y">>
L_misc == <<"m","i","s","c">>
L_tool == <<"t","o","o","l">>
L_PERSON == <<"P","E","R","S","O","N">>

T_Go == <<"G","o">>
T_go == <<" ","g","o">>
T_AI == <<"A","I">>
T_ai == <<"a","i","\t">>
T_Python == <<"P","y","t","h","o","n">>
T_JaneDoe == <<"J","a","n","e"," ","D","o","e">>
T_empty == <<>>
T_blank == <<" ">>

(* ------------------- the loop head of store_entities_in_graph --------- *)
entity_type(e) == Lower(e.label)

\* a variant that takes the text as it comes, without .strip()
entity_text_unstripped(e) == e.text

entity_text(e) == Strip(e.text)

\* the branch of the if/elif chain a span with non-empty text takes:
\* an entity table, or "none" when no branch matches its label
Branch(e) ==
    IF entity_type(e) = L_person THEN "Person"
    ELSE IF entity_type(e) = L_organization THEN "Organization"
    ELSE IF entity_type(e) \in {L_location, L_technology, L_misc}
         THEN IF _is_technology_term(entity_text(e)) THEN "Technology" ELSE "Topic"
    ELSE "none"

Span(text, label, score) == [text |-> text, label |-> label, score |-> score]

\* what the extractor may hand over: spans differing in casing, surrounding
\* whitespace, label and confidence, blank spans, and a label of
\* EntityExtractor.DEFAULT_ENTITY_TYPES that the store has no branch for
SpanPool ==
    { Span(T_Go, L_person, 1), Span(T_go, L_PERSON, 2),
      Span(T_Go, L_organization, 2), Span(T_go, L_organization, 1),
      Span(T_Go, L_technology, 1), Span(T_go, L_location, 2),
      Span(T_AI, L_misc, 2), Span(T_ai, L_location, 1),
      Span(T_AI, L_tool, 1),
      Span(T_Python, L_technology, 2), Span(T_JaneDoe, L_person, 1),
      Span(T_empty, L_person, 1), Span(T_blank, L_misc, 2) }

\* what the loop head computes of each span, tabulated once
Routing ==
    [e \in SpanPool |->
        [text |-> entity_text(e), key |-> normalize_entity_name(entity_text(e)),
         branch |-> Branch(e)]]

\* (conversation_id, entry_id, conversation_title) of a call
CallArgs ==
    { [conversation_id |-> "c1", entry_id |-> "E1", conversation_title |-> "A"],
      [conversation_id |-> "c1", entry_id |-> "E1", conversation_title |-> "B"],
      [conversation_id |-> "c2", entry_id |-> "E2", conversation_title |-> "A"] }

Calls == 1..NumCalls

EntityTables == {"Person", "Organization", "Technology", "Topic"}
NodeTables == EntityTables \cup {"MSEntry"}
RelTables == {"DISCUSSED_IN", "ORG_IN", "TECH_IN", "TOPIC_IN"}

\* the relationship table of each entity table
RelOf(tbl) ==
    CASE tbl = "Person" -> "DISCUSSED_IN"
      [] tbl = "Organization" -> "ORG_IN"
      [] tbl = "Technology" -> "TECH_IN"
      [] tbl = "Topic" -> "TOPIC_IN"

\* the key of `counts` each entity table is reported under
CountKey(tbl) ==
    CASE tbl = "Person" -> "person"
      [] tbl = "Organization" -> "organization"
      [] tbl = "Technology" -> "technology"
      [] tbl = "Topic" -> "topic"

AllKeys == { normalize_entity_name(s.text) : s \in SpanPool }
EntryIds == { a.entry_id : a \in CallArgs }

\* the spans of the pool that reach each outcome of the loop head:
\* "empty" (the continue), an entity table's branch, or "none" (no branch)
Outcome(e) == IF Routing[e].text = <<>> THEN "empty" ELSE Routing[e].branch
Reaching == [o \in EntityTables \cup {"empty", "none"} |-> { e \in SpanPool : Outcome(e) = o }]

(* ------------------------------- state -------------------------------- *)
VARIABLES
    kuzu_conn,   \* StorageManager._kuzu_conn: "unset", "open", or "failed" (left None)
    nodes,       \* node table -> its rows
    rels,        \* relationship table -> its rows
    now,         \* the last reading of datetime.now()
    frame,       \* call -> the frame of its store_entities_in_graph
    trace,       \* call -> what happened to each entity it has processed
    merges,      \* <<entity table, key>> -> the merges that executed, in order
    links,       \* <<entity table, key, entry_id>> -> the links that bound their endpoints
    nfail        \* statements that have raised

\* a direct call of one of the module's pure functions
VARIABLES
    arg,         \* its arguments
    res          \* what it returned

fn_vars == <<arg, res>>

\* the semantic search engine (ms_search.py) and its collaborators
VARIABLES
    ms_store,    \* MagicScroll.ms_store: "unset", "none", "sqlite" or "milvus"
    embed_model, \* MSSearch.embed_model: "none", "no_encode" (no encode method) or "model"
    entries,     \* the rows of the store's entries table
    sq           \* the frame of the search call in progress

search_vars == <<ms_store, embed_model, entries, sq>>

\* the record store's own interface and the ingestion pipeline around it
VARIABLES
    st,          \* the last call of save_ms_entry / get_ms_entry / delete_ms_entry
    ar           \* the frame of archive_conversation / BaseIngestor.create_ms_entry

ingest_vars == <<st, ar>>

\* what store_entities_in_graph never touches
other_vars == <<fn_vars, search_vars, ingest_vars>>

\* the graph and the calls of store_entities_in_graph
graph_vars == <<kuzu_conn, nodes, rels, now, frame, trace, merges, links, nfail>>

vars == <<graph_vars, other_vars>>

NoArg == [op |-> "none"]
NoRes == [op |-> "none"]

ZeroCounts == [person |-> 0, organization |-> 0, technology |-> 0, topic |-> 0]

NoSpan == Span(<<>>, <<>>, 0)

\* `entities` is read one element per iteration: the frame holds its length
\* and the element of the iteration in progress
IdleFrame ==
    [pc |-> "idle", len |-> 0, entity |-> NoSpan, conversation_id |-> "", entry_id |-> "",
     conversation_title |-> "", i |-> 1, counts |-> ZeroCounts, ret |-> ZeroCounts,
     entry_ok |-> FALSE]

GraphInit ==
    /\ kuzu_conn = "unset"
    /\ nodes = [t \in NodeTables |-> {}]
    /\ rels = [t \in RelTables |-> {}]
    /\ now = 0
    /\ frame = [c \in Calls |-> IdleFrame]
    /\ trace = [c \in Calls |-> <<>>]
    /\ merges = [k \in EntityTables \X AllKeys |-> <<>>]
    /\ links = [k \in EntityTables \X AllKeys \X EntryIds |-> <<>>]
    /\ nfail = 0

\* no search call made: the frame of MSSearch.search / conversation_context_search
IdleSearch ==
    [pc |-> "idle", op |-> "", phase |-> "", entry_types |-> {},
     temporal_filter |-> [keys |-> {}, start |-> 0, end |-> 0],
     limit |-> 0, embedding |-> 0, embed_failed |-> FALSE, hits |-> <<>>, fetched |-> <<>>,
     converted |-> <<>>, primary |-> <<>>, ret |-> <<>>, queries |-> <<>>,
     store_raised |-> FALSE]

SearchIdle ==
    /\ ms_store = "unset"
    /\ embed_model = "none"
    /\ entries = {}
    /\ sq = IdleSearch

\* the ids the record store is called with
StoreIds == {"e1", "e2"}

\* MSEntry(id, content, entry_type, created_at): entry_type is a member of
\* the EntryType enum
MSEntry(id, content, entry_type, created_at) ==
    [id |-> id, content |-> content, entry_type |-> entry_type, created_at |-> created_at]

\* None, where an MSEntry is expected
NoMSEntry == MSEntry("", "", "", 0)

\* no call of the record store made
IdleStore ==
    [op |-> "none", entry_id |-> "", entry |-> NoMSEntry, failed |-> FALSE,
     ret_ok |-> FALSE, ret_entry |-> NoMSEntry,
     saved |-> [i \in StoreIds |-> NoMSEntry],
     between |-> [i \in StoreIds |-> FALSE],
     created |-> [i \in StoreIds |-> NoMSEntry]]

\* no archive or ingestion in progress
IdleArchive ==
    [pc |-> "idle", op |-> "", text |-> <<>>, gliner_available |-> "None", model |-> "none",
     predict_raised |-> FALSE, extractor_raised |-> FALSE, entities |-> <<>>,
     entities_data |-> FALSE, entry_id |-> "", saved |-> FALSE, ret |-> ""]

IngestIdle == st = IdleStore /\ ar = IdleArchive

Init ==
    /\ GraphInit
    /\ arg = NoArg
    /\ res = NoRes
    /\ SearchIdle
    /\ IngestIdle

(* --------------------------- Cypher statements ------------------------ *)
\* CASE WHEN $conf > x.confidence THEN $conf ELSE x.confidence END
CaseWhenGreater(conf, existing) == IF conf > existing THEN conf ELSE existing

\* rows of a node table with the given primary key
ByName(rows, normalized_name) == { p \in rows : p.normalized_name = normalized_name }
ByEntryId(rows, entry_id) == { e \in rows : e.entry_id = entry_id }

\* the internal id of a row created in `rows`
NewId(rows) == Cardinality(rows) + 1

_store_ms_entry(rows, entry_id, conversation_id, title, current_time) ==
    IF ByEntryId(rows, entry_id) = {}
    THEN rows \cup { [id |-> NewId(rows), entry_id |-> entry_id,
                      conversation_id |-> conversation_id, entry_type |-> "conversation",
                      title |-> title, created_at |-> current_time, token_count |-> 0] }
    ELSE { IF e.entry_id = entry_id THEN [e EXCEPT !.title = title] ELSE e : e \in rows }

\* a variant whose ON MATCH leaves mention_count alone
_store_person_entity_no_increment(rows, name, normalized_name, confidence, current_time) ==
    IF ByName(rows, normalized_name) = {}
    THEN rows \cup { [id |-> NewId(rows), name |-> name, normalized_name |-> normalized_name,
                      confidence |-> confidence, first_seen |-> current_time,
                      last_seen |-> current_time, mention_count |-> 1] }
    ELSE { IF p.normalized_name = normalized_name
           THEN [p EXCEPT !.confidence = CaseWhenGreater(confidence, @),
                          !.last_seen = current_time]
           ELSE p : p \in rows }

\* a variant whose ON MATCH assigns $conf instead of the larger confidence
_store_person_entity_overwrite(rows, name, normalized_name, confidence, current_time) ==
    IF ByName(rows, normalized_name) = {}
    THEN rows \cup { [id |-> NewId(rows), name |-> name, normalized_name |-> normalized_name,
                      confidence |-> confidence, first_seen |-> current_time,
                      last_seen |-> current_time, mention_count |-> 1] }
    ELSE { IF p.normalized_name = normalized_name
           THEN [p EXCEPT !.confidence = confidence,
                          !.last_seen = current_time,
                          !.mention_count = @ + 1]
           ELSE p : p \in rows }

_store_person_entity(rows, name, normalized_name, confidence, current_time) ==
    IF ByName(rows, normalized_name) = {}
    THEN rows \cup { [id |-> NewId(rows), name |-> name, normalized_name |-> normalized_name,
                      confidence |-> confidence, first_seen |-> current_time,
                      last_seen |-> current_time, mention_count |-> 1] }
    ELSE { IF p.normalized_name = normalized_name
           THEN [p EXCEPT !.confidence = CaseWhenGreater(confidence, @),
                          !.last_seen = current_time,
                          !.mention_count = @ + 1]
           ELSE p : p \in rows }

\* a variant whose ON MATCH also assigns the name of the observation
_store_organization_entity_rename(rows, name, normalized_name, confidence, current_time) ==
    IF ByName(rows, normalized_name) = {}
    THEN rows \cup { [id |-> NewId(rows), name |-> name, normalized_name |-> normalized_name,
                      confidence |-> confidence, first_seen |-> current_time,
                      last_seen |-> current_time, mention_count |-> 1] }
    ELSE { IF o.normalized_name = normalized_name
           THEN [o EXCEPT !.name = name,
                          !.confidence = CaseWhenGreater(confidence, @),
                          !.last_seen = current_time,
                          !.mention_count = @ + 1]
           ELSE o : o \in rows }

_store_organization_entity(rows, name, normalized_name, confidence, current_time) ==
    IF ByName(rows, normalized_name) = {}
    THEN rows \cup { [id |-> NewId(rows), name |-> name, normalized_name |-> normalized_name,
                      confidence |-> confidence, first_seen |-> current_time,
                      last_seen |-> current_time, mention_count |-> 1] }
    ELSE { IF o.normalized_name = normalized_name
           THEN [o EXCEPT !.confidence = CaseWhenGreater(confidence, @),
                          !.last_seen = current_time,
                          !.mention_count = @ + 1]
           ELSE o : o \in rows }

_store_technology_entity(rows, name, normalized_name, confidence, category, current_time) ==
    IF ByName(rows, normalized_name) = {}
    THEN rows \cup { [id |-> NewId(rows), name |-> name, normalized_name |-> normalized_name,
                      category |-> category, confidence |-> confidence,
                      first_seen |-> current_time, last_seen |-> current_time,
                      mention_count |-> 1] }
    ELSE { IF t.normalized_name = normalized_name
           THEN [t EXCEPT !.confidence = CaseWhenGreater(confidence, @),
                          !.last_seen = current_time,
                          !.mention_count = @ + 1]
           ELSE t : t \in rows }

_store_topic_entity(rows, name, normalized_name, confidence, category, current_time) ==
    IF ByName(rows, normalized_name) = {}
    THEN rows \cup { [id |-> NewId(rows), name |-> name, normalized_name |-> normalized_name,
                      category |-> category, confidence |-> confidence,
                      first_seen |-> current_time, last_seen |-> current_time,
                      mention_count |-> 1] }
    ELSE { IF t.normalized_name = normalized_name
           THEN [t EXCEPT !.confidence = CaseWhenGreater(confidence, @),
                          !.last_seen = current_time,
                          !.mention_count = @ + 1]
           ELSE t : t \in rows }

\* MATCH (x:Table {normalized_name: $name}), (e:MSEntry {entry_id: $entry}):
\* the <<entity row, entry row>> pairs the pattern binds
Bound(entity_rows, entry_rows, normalized_name, entry_id) ==
    ByName(entity_rows, normalized_name) \X ByEntryId(entry_rows, entry_id)

\* the edges of `edges` between a bound pair
Between(edges, pairs) ==
    { r \in edges : \E pr \in pairs : r.src = pr[1].id /\ r.dst = pr[2].id }

\* a variant that takes every bound pair for unlinked (CREATE for MERGE)
Unlinked_always(edges, pairs) == pairs

\* the bound pairs with no edge yet
Unlinked(edges, pairs) ==
    { pr \in pairs : ~ \E r \in edges : r.src = pr[1].id /\ r.dst = pr[2].id }

\* a variant with MERGE alone, without the MATCH of the endpoints: when no
\* pair is bound it creates an edge between nodes that are not there
_store_person_relationship_dangling(edges, pairs, confidence) ==
    IF pairs = {}
    THEN edges \cup { [id |-> NewId(edges), src |-> 0, dst |-> 0, confidence |-> confidence,
                       context |-> "conversation", sentiment |-> "neutral",
                       mentioned_count |-> 1] }
    ELSE { IF r \in Between(edges, pairs)
           THEN [r EXCEPT !.mentioned_count = @ + 1,
                          !.confidence = CaseWhenGreater(confidence, @)]
           ELSE r : r \in edges }
         \cup { [id |-> NewId(edges), src |-> pr[1].id, dst |-> pr[2].id,
                 confidence |-> confidence, context |-> "conversation",
                 sentiment |-> "neutral", mentioned_count |-> 1] : pr \in Unlinked(edges, pairs) }

\* a variant whose ON MATCH leaves mentioned_count alone
_store_person_relationship_no_count(edges, pairs, confidence) ==
    { IF r \in Between(edges, pairs)
      THEN [r EXCEPT !.confidence = CaseWhenGreater(confidence, @)]
      ELSE r : r \in edges }
    \cup { [id |-> NewId(edges), src |-> pr[1].id, dst |-> pr[2].id,
            confidence |-> confidence, context |-> "conversation",
            sentiment |-> "neutral", mentioned_count |-> 1] : pr \in Unlinked(edges, pairs) }

_store_person_relationship(edges, pairs, confidence) ==
    { IF r \in Between(edges, pairs)
      THEN [r EXCEPT !.mentioned_count = @ + 1,
                     !.confidence = CaseWhenGreater(confidence, @)]
      ELSE r : r \in edges }
    \cup { [id |-> NewId(edges), src |-> pr[1].id, dst |-> pr[2].id,
            confidence |-> confidence, context |-> "conversation",
            sentiment |-> "neutral", mentioned_count |-> 1] : pr \in Unlinked(edges, pairs) }

\* a variant whose ON MATCH assigns $conf instead of the larger confidence
_store_org_relationship_overwrite(edges, pairs, confidence) ==
    { IF r \in Between(edges, pairs)
      THEN [r EXCEPT !.confidence = confidence]
      ELSE r : r \in edges }
    \cup { [id |-> NewId(edges), src |-> pr[1].id, dst |-> pr[2].id,
            confidence |-> confidence, context |-> "conversation",
            relationship_type |-> "mentioned"] : pr \in Unlinked(edges, pairs) }

_store_org_relationship(edges, pairs, confidence) ==
    { IF r \in Between(edges, pairs)
      THEN [r EXCEPT !.confidence = CaseWhenGreater(confidence, @)]
      ELSE r : r \in edges }
    \cup { [id |-> NewId(edges), src |-> pr[1].id, dst |-> pr[2].id,
            confidence |-> confidence, context |-> "conversation",
            relationship_type |-> "mentioned"] : pr \in Unlinked(edges, pairs) }

_store_tech_relationship(edges, pairs, confidence) ==
    { IF r \in Between(edges, pairs)
      THEN [r EXCEPT !.confidence = CaseWhenGreater(confidence, @)]
      ELSE r : r \in edges }
    \cup { [id |-> NewId(edges), src |-> pr[1].id, dst |-> pr[2].id,
            confidence |-> confidence, usage_context |-> "discussion",
            proficiency_level |-> "unknown"] : pr \in Unlinked(edges, pairs) }

_store_topic_relationship(edges, pairs, confidence) ==
    { IF r \in Between(edges, pairs)
      THEN [r EXCEPT !.confidence = CaseWhenGreater(confidence, @)]
      ELSE r : r \in edges }
    \cup { [id |-> NewId(edges), src |-> pr[1].id, dst |-> pr[2].id,
            confidence |-> confidence, importance_level |-> "medium",
            discussion_depth |-> "surface"] : pr \in Unlinked(edges, pairs) }

(* --------------------------- the environment -------------------------- *)
\* a statement's execute() returns, or raises (and the helper's except logs it)
Executes(ok) ==
    /\ ok \/ nfail < MaxFail
    /\ nfail' = IF ok THEN nfail ELSE nfail + 1

\* datetime.now(): no earlier than the last reading
Readings == { t \in now..(now + 1) : t <= MaxTime }

\* StorageManager.init_stores / _init_kuzu: the connection opens, or the
\* exception is printed and _kuzu_conn stays None
InitStores ==
    /\ kuzu_conn = "unset"
    /\ kuzu_conn' \in {"open", "failed"}
    /\ UNCHANGED <<nodes, rels, now, frame, trace, merges, links, nfail>>
    /\ UNCHANGED other_vars

(* ---------------------- store_entities_in_graph ----------------------- *)
InLoop(c) == frame[c].pc = "loop" /\ frame[c].i <= frame[c].len

\* the record `trace` keeps of one iteration: the span, the outcome of the loop
\* head, whether the two statements executed, and whether the relationship
\* statement bound its endpoints
TraceEntry(e, merge_ok) ==
    [span |-> e, route |-> Outcome(e), merge_ok |-> merge_ok, link_ok |-> FALSE,
     bound |-> FALSE]

Running(c) == frame[c].pc \in {"entry", "loop", "link"}

\* a variant in which the helper lets the exception out, to the outer except
HelperReraise(next) == "raised"

\* the helper's `except Exception as e: logger.error(...)`: the helper returns
\* normally and the caller goes on at `next`
HelperExcept(next) == next

RECURSIVE HandedOver(_)
\* the entities handed to calls 1..n so far
HandedOver(n) == IF n = 0 THEN 0 ELSE frame[n].len + HandedOver(n - 1)

\* the caller's side of a call: the arguments, and `storage.kuzu`, which
\* raises RuntimeError when the connection is not open; the outer except
\* turns that into all-zero counts
Enter(c) ==
    /\ frame[c].pc = "idle"
    /\ \E len \in 0..(MaxSpans - HandedOver(NumCalls)), a \in CallArgs :
         /\ frame' = [frame EXCEPT ![c] =
               [IdleFrame EXCEPT !.pc = IF kuzu_conn = "open" THEN "entry" ELSE "raised",
                                 !.len = len,
                                 !.conversation_id = a.conversation_id,
                                 !.entry_id = a.entry_id,
                                 !.conversation_title = a.conversation_title,
                                 !.ret = ZeroCounts]]
    /\ UNCHANGED <<kuzu_conn, nodes, rels, now, trace, merges, links, nfail>>
    /\ UNCHANGED other_vars

Finished(c) == frame[c].pc \in {"returned", "raised"}

\* calls are numbered in the order they are made.  store_entities_in_graph is
\* synchronous (it never awaits), so within one event loop a call is made
\* only when the one before it has returned
Call(c) ==
    /\ \A d \in Calls : d < c => Finished(d)
    /\ Enter(c)

\* calls made by parallel ingestion workers (spec section 5): a call may be
\* made while earlier ones are still running
ParallelCall(c) ==
    /\ \A d \in Calls : d < c => frame[d].pc # "idle"
    /\ Enter(c)

\* _store_ms_entry(kuzu_conn, entry_id, conversation_id, conversation_title)
StoreMsEntry(c) ==
    /\ frame[c].pc = "entry"
    /\ \E t \in Readings, ok \in BOOLEAN :
         /\ Executes(ok)
         /\ now' = t
         /\ nodes' = IF ok
                     THEN [nodes EXCEPT !["MSEntry"] =
                             _store_ms_entry(@, frame[c].entry_id, frame[c].conversation_id,
                                             frame[c].conversation_title, t)]
                     ELSE nodes
         /\ frame' = [frame EXCEPT ![c].pc = IF ok THEN "loop" ELSE HelperExcept("loop"),
                                   ![c].entry_ok = ok]
    /\ UNCHANGED <<kuzu_conn, rels, trace, merges, links>>
    /\ UNCHANGED other_vars

\* if not entity_text: continue
SkipEmpty(c) ==
    /\ InLoop(c)
    /\ \E e \in Reaching["empty"] :
         trace' = [trace EXCEPT ![c] = Append(@, TraceEntry(e, FALSE))]
    /\ frame' = [frame EXCEPT ![c].i = @ + 1]
    /\ UNCHANGED <<kuzu_conn, nodes, rels, now, merges, links, nfail>>
    /\ UNCHANGED other_vars

\* no branch of the if/elif chain matches the label: the loop goes on
SkipUnrouted(c) ==
    /\ InLoop(c)
    /\ \E e \in Reaching["none"] :
         trace' = [trace EXCEPT ![c] = Append(@, TraceEntry(e, FALSE))]
    /\ frame' = [frame EXCEPT ![c].i = @ + 1]
    /\ UNCHANGED <<kuzu_conn, nodes, rels, now, merges, links, nfail>>
    /\ UNCHANGED other_vars

\* the first helper of a branch: the MERGE of the entity node of span e, with
\* the reading of the clock `t` and the table's rows after the statement
MergeStep(c, tbl, e, t, ok, rows) ==
    /\ Executes(ok)
    /\ now' = t
    /\ nodes' = IF ok THEN [nodes EXCEPT ![tbl] = rows] ELSE nodes
    /\ merges' = IF ok
                 THEN [merges EXCEPT ![<<tbl, Routing[e].key>>] =
                         Append(@, [text |-> e.text, confidence |-> e.score, time |-> t, call |-> c,
                                    overlap |-> \E d \in Calls \ {c} : Running(d)])]
                 ELSE merges
    /\ frame' = [frame EXCEPT ![c].pc = IF ok THEN "link" ELSE HelperExcept("link"),
                              ![c].entity = e]
    /\ trace' = [trace EXCEPT ![c] = Append(@, TraceEntry(e, ok))]
    /\ UNCHANGED <<kuzu_conn, rels, links>>
    /\ UNCHANGED other_vars

\* the second helper of a branch: the MERGE of the relationship, then
\* counts[...] += 1 and the next iteration
LinkStep(c, tbl, ok, pairs, edges) ==
    LET e == frame[c].entity
        n == Len(trace[c])
    IN /\ Executes(ok)
       /\ rels' = IF ok THEN [rels EXCEPT ![RelOf(tbl)] = edges] ELSE rels
       /\ links' = IF ok /\ pairs # {}
                   THEN [links EXCEPT ![<<tbl, Routing[e].key, frame[c].entry_id>>] =
                           Append(@, [confidence |-> e.score, call |-> c])]
                   ELSE links
       /\ frame' = [frame EXCEPT ![c].pc = IF ok THEN "loop" ELSE HelperExcept("loop"),
                                 ![c].i = @ + 1, ![c].entity = NoSpan,
                                 ![c].counts[CountKey(tbl)] = @ + 1]
       /\ trace' = [trace EXCEPT ![c][n].link_ok = ok,
                                 ![c][n].bound = (ok /\ pairs # {})]
       /\ UNCHANGED <<kuzu_conn, nodes, now, merges>>
       /\ UNCHANGED other_vars

\* the pairs the relationship statement of the current entity binds
Pairs(c, tbl) ==
    Bound(nodes[tbl], nodes["MSEntry"], Routing[frame[c].entity].key, frame[c].entry_id)

StorePerson(c) ==
    /\ InLoop(c)
    /\ \E e \in Reaching["Person"], t \in Readings, ok \in BOOLEAN :
        MergeStep(c, "Person", e, t, ok,
                  _store_person_entity(nodes["Person"], Routing[e].text, Routing[e].key,
                                       e.score, t))

LinkPerson(c) ==
    /\ frame[c].pc = "link"
    /\ Outcome(frame[c].entity) = "Person"
    /\ \E ok \in BOOLEAN :
        LinkStep(c, "Person", ok, Pairs(c, "Person"),
                 _store_person_relationship(rels["DISCUSSED_IN"], Pairs(c, "Person"),
                                            frame[c].entity.score))

StoreOrganization(c) ==
    /\ InLoop(c)
    /\ \E e \in Reaching["Organization"], t \in Readings, ok \in BOOLEAN :
        MergeStep(c, "Organization", e, t, ok,
                  _store_organization_entity(nodes["Organization"], Routing[e].text,
                                             Routing[e].key, e.score, t))

LinkOrganization(c) ==
    /\ frame[c].pc = "link"
    /\ Outcome(frame[c].entity) = "Organization"
    /\ \E ok \in BOOLEAN :
        LinkStep(c, "Organization", ok, Pairs(c, "Organization"),
                 _store_org_relationship(rels["ORG_IN"], Pairs(c, "Organization"),
                                         frame[c].entity.score))

StoreTechnology(c) ==
    /\ InLoop(c)
    /\ \E e \in Reaching["Technology"], t \in Readings, ok \in BOOLEAN :
        MergeStep(c, "Technology", e, t, ok,
                  _store_technology_entity(nodes["Technology"], Routing[e].text,
                                           Routing[e].key, e.score,
                                           categorize_entity(Routing[e].text, "technology"), t))

LinkTechnology(c) ==
    /\ frame[c].pc = "link"
    /\ Outcome(frame[c].entity) = "Technology"
    /\ \E ok \in BOOLEAN :
        LinkStep(c, "Technology", ok, Pairs(c, "Technology"),
                 _store_tech_relationship(rels["TECH_IN"], Pairs(c, "Technology"),
                                          frame[c].entity.score))

StoreTopic(c) ==
    /\ InLoop(c)
    /\ \E e \in Reaching["Topic"], t \in Readings, ok \in BOOLEAN :
        MergeStep(c, "Topic", e, t, ok,
                  _store_topic_entity(nodes["Topic"], Routing[e].text, Routing[e].key,
                                      e.score, categorize_entity(Routing[e].text, "topic"), t))

LinkTopic(c) ==
    /\ frame[c].pc = "link"
    /\ Outcome(frame[c].entity) = "Topic"
    /\ \E ok \in BOOLEAN :
        LinkStep(c, "Topic", ok, Pairs(c, "Topic"),
                 _store_topic_relationship(rels["TOPIC_IN"], Pairs(c, "Topic"),
                                           frame[c].entity.score))

\* the loop is over: logger.info(...); return counts
Return(c) ==
    /\ frame[c].pc = "loop"
    /\ frame[c].i > frame[c].len
    /\ frame' = [frame EXCEPT ![c].pc = "returned", ![c].ret = frame[c].counts]
    /\ UNCHANGED <<kuzu_conn, nodes, rels, now, trace, merges, links, nfail>>
    /\ UNCHANGED other_vars

Next ==
    \/ InitStores
    \/ \E c \in Calls :
         \/ Call(c)
         \/ StoreMsEntry(c)
         \/ SkipEmpty(c)
         \/ SkipUnrouted(c)
         \/ StorePerson(c)
         \/ LinkPerson(c)
         \/ StoreOrganization(c)
         \/ LinkOrganization(c)
         \/ StoreTechnology(c)
         \/ LinkTechnology(c)
         \/ StoreTopic(c)
         \/ LinkTopic(c)
         \/ Return(c)

Spec == Init /\ [][Next]_vars

\* parallel ingestion of Person spans: the statements of the calls interleave
ParallelNext ==
    \/ InitStores
    \/ \E c \in Calls :
         \/ ParallelCall(c)
         \/ StoreMsEntry(c)
         \/ StorePerson(c)
         \/ LinkPerson(c)
         \/ Return(c)

ParallelSpec == Init /\ [][ParallelNext]_vars


(* ------------------- direct calls of the pure functions --------------- *)
\* longest name handed to normalize_entity_name
MaxLen == 3
\* most words of a text handed to categorize_entity
MaxWords == 2

\* characters of the names: a letter in both cases, another letter, a blank
NameChars == {"a", "A", "b", " "}

\* all strings over `chars` of at most n characters
StringsUpTo(chars, n) == UNION { [1..k -> chars] : k \in 0..n }

\* words of the texts: terms of several rules, in mixed case, and a word of none
Words ==
    { <<"G","o">>,
      <<"R","e","a","c","t">>,
      <<"D","j","a","n","g","o">>,
      <<"R","e","d","i","s">>,
      <<"A","W","S">>,
      <<"A","I">>,
      <<"W","e","b">>,
      <<"M","a","r","k","e","t">>,
      <<"U","X">>,
      <<"Z","e","d">> }

RECURSIVE Phrases(_)
\* texts of at most n words
Phrases(n) ==
    IF n = 1 THEN Words
    ELSE Phrases(n - 1) \cup { p \o <<" ">> \o w : p \in Phrases(n - 1), w \in Words }

\* the entity_type argument: the two the store passes, and another
EntityTypeArgs == {"technology", "topic", "person"}

NormalizeArgs ==
    [op : {"normalize"}, text : StringsUpTo(NameChars, MaxLen), other : StringsUpTo(NameChars, MaxLen)]
CategorizeArgs ==
    [op : {"categorize"}, text : Phrases(MaxWords), entity_type : EntityTypeArgs]

FnInit ==
    /\ GraphInit
    /\ arg \in NormalizeArgs \cup CategorizeArgs
    /\ res = NoRes
    /\ SearchIdle
    /\ IngestIdle

\* normalize_entity_name(text), normalize_entity_name(other) and
\* normalize_entity_name(normalize_entity_name(text))
Normalize ==
    /\ arg.op = "normalize"
    /\ res = NoRes
    /\ res' = [op |-> "normalize",
               text |-> normalize_entity_name(arg.text),
               other |-> normalize_entity_name(arg.other),
               again |-> normalize_entity_name(normalize_entity_name(arg.text))]
    /\ UNCHANGED <<arg, graph_vars, search_vars, ingest_vars>>

\* categorize_entity(text, entity_type)
Categorize ==
    /\ arg.op = "categorize"
    /\ res = NoRes
    /\ res' = [op |-> "categorize", category |-> categorize_entity(arg.text, arg.entity_type)]
    /\ UNCHANGED <<arg, graph_vars, search_vars, ingest_vars>>

FnNext == Normalize \/ Categorize

FnSpec == FnInit /\ [][FnNext]_vars

(* --------------------------- semantic search -------------------------- *)
\* MSSearch.vector_dim
vector_dim == 384
\* the score search_by_vector of the SQLite store gives every row (0.5, in tenths)
DefaultScore == 5

\* most hits one vector-store query returns
MaxHits == 2
\* largest limit a caller passes
MaxLimit == 2

\* EntryType
EntryTypes == {"conversation", "document", "image", "code"}

Row(id, content, entry_type, created_at) ==
    [id |-> id, content |-> content, entry_type |-> entry_type, created_at |-> created_at]

\* rows the entries table may hold
EntryPool ==
    { Row("e1", "c1", "conversation", 1), Row("e2", "c2", "document", 2),
      Row("e3", "c3", "conversation", 3) }

\* get_ms_entry found nothing, or failed: None
NoEntry == Row("", "", "", 0)

Hit(id, score, content, entry_type, created_at) ==
    [id |-> id, score |-> score, content |-> content, entry_type |-> entry_type,
     created_at |-> created_at]

\* raw hits of a vector store: of stored and of unknown entries, with and
\* without inline content and entry_type, with and without an id
HitPool ==
    { Hit("e1", 9, "c1", "conversation", 1), Hit("e2", 7, "", "", 2),
      Hit("x9", 8, "c9", "document", 2), Hit("x8", 3, "", "", 3),
      Hit("", 7, "c7", "conversation", 3) }

\* str(hash(content))[-8:]
HashId(content) ==
    CASE content = "c1" -> "h1" [] content = "c7" -> "h7" [] content = "c9" -> "h9"
      [] OTHER -> "h0"

\* the temporal_filter argument: the keys present, and their values
Temporal(keys, start, end) == [keys |-> keys, start |-> start, end |-> end]
NoTemporal == Temporal({}, 0, 0)
TemporalFilters == { NoTemporal, Temporal({"start", "end"}, 2, 3), Temporal({"end"}, 1, 1) }

\* the entry_types argument: None, or a list of entry types
TypeFilters == { {}, {"conversation"}, {"document"} }

\* what embed_model.encode(text) does: it raises, or returns len numbers
EncodeOutcomes ==
    { [raises |-> TRUE, len |-> 0] }
      \cup { [raises |-> FALSE, len |-> n] : n \in {0, vector_dim - 1, vector_dim} }

\* a variant without the check of the vector's length
_get_embedding_unchecked(model, outcome) ==
    IF model = "none" THEN 0
    ELSE IF model = "no_encode" THEN 0
    ELSE IF outcome.raises THEN 0
    ELSE outcome.len

\* MSSearch._get_embedding: the length of the list it returns (0 for [])
_get_embedding(model, outcome) ==
    IF model = "none" THEN 0
    ELSE IF model = "no_encode" THEN 0
    ELSE IF outcome.raises THEN 0
    ELSE IF outcome.len # 0 /\ outcome.len = vector_dim THEN outcome.len
    ELSE 0

\* the rows the WHERE clause of MSSQLiteStore.search_by_vector keeps
Where(rows, entry_types, temporal_filter) ==
    { r \in rows :
        /\ entry_types # {} => r.entry_type \in entry_types
        /\ (temporal_filter.keys # {} /\ "start" \in temporal_filter.keys)
              => r.created_at >= temporal_filter.start
        /\ (temporal_filter.keys # {} /\ "end" \in temporal_filter.keys)
              => r.created_at <= temporal_filter.end }

RECURSIVE OrderByCreatedAtDesc(_)
OrderByCreatedAtDesc(rows) ==
    IF rows = {} THEN <<>>
    ELSE LET first == CHOOSE r \in rows : \A q \in rows : q.created_at <= r.created_at
         IN <<first>> \o OrderByCreatedAtDesc(rows \ {first})

\* seq[:n], n >= 0
Prefix(seq, n) == SubSeq(seq, 1, IF n < Len(seq) THEN n ELSE Len(seq))

\* MSSQLiteStore.search_by_vector: the most recent matching rows
sqlite_search_by_vector(rows, limit, entry_types, temporal_filter) ==
    LET found == Prefix(OrderByCreatedAtDesc(Where(rows, entry_types, temporal_filter)), limit)
    IN [k \in 1..Len(found) |->
          Hit(found[k].id, DefaultScore, found[k].content, found[k].entry_type,
              found[k].created_at)]

\* every sequence of at most n hits of the pool
HitLists(n) == UNION { [1..k -> HitPool] : k \in 0..n }

\* MSSQLiteStore.search_by_vector as its caller sees it: the matching rows,
\* or [] after an error inside the store; it never raises
sqlite_answers(rows, limit, entry_types, temporal_filter) ==
    { [raises |-> FALSE,
       hits |-> sqlite_search_by_vector(rows, limit, entry_types, temporal_filter)],
      [raises |-> FALSE, hits |-> <<>>] }

\* MSMilvusStore.search_by_vector as its caller sees it: it raises, or it
\* answers some hits, which the store need not have filtered
milvus_answers ==
    { [raises |-> TRUE, hits |-> <<>>] }
      \cup { [raises |-> FALSE, hits |-> h] : h \in HitLists(MaxHits) }

\* what self.magicscroll.ms_store.search_by_vector(...) may answer
StoreAnswers(store, rows, limit, entry_types, temporal_filter) ==
    IF store = "sqlite"
    THEN sqlite_answers(rows, limit, entry_types, temporal_filter)
    ELSE milvus_answers

\* MagicScroll.get_ms_entry / MSSQLiteStore.get_ms_entry
get_ms_entry(rows, entry_id) ==
    IF \E r \in rows : r.id = entry_id
    THEN CHOOSE r \in rows : r.id = entry_id
    ELSE NoEntry

SearchResult(entry, score) == [entry |-> entry, score |-> score, source |-> "vector"]

\* the MSEntry built from the inline fields of a hit
MinimalEntry(result) ==
    Row(IF result.id # "" THEN result.id ELSE HashId(result.content),
        result.content, result.entry_type, result.created_at)

\* the SearchResult of one hit, as a list of none or one
ResultOfHit(result, entry) ==
    IF entry # NoEntry
    THEN << SearchResult(entry, result.score) >>
    ELSE IF result.content # "" /\ result.entry_type # ""
    THEN << SearchResult(MinimalEntry(result), result.score) >>
    ELSE <<>>

\* a variant without the branch that builds the minimal entry
ResultOfHit_stored_only(result, entry) ==
    IF entry # NoEntry
    THEN << SearchResult(entry, result.score) >>
    ELSE <<>>

RECURSIVE _results_to_entries_stored_only(_, _)
_results_to_entries_stored_only(results, fetched) ==
    IF results = <<>> THEN <<>>
    ELSE ResultOfHit_stored_only(Head(results), Head(fetched))
           \o _results_to_entries_stored_only(Tail(results), Tail(fetched))

RECURSIVE _results_to_entries(_, _)
\* MSSearch._results_to_entries(results), with what get_ms_entry returned for
\* each hit
_results_to_entries(results, fetched) ==
    IF results = <<>> THEN <<>>
    ELSE ResultOfHit(Head(results), Head(fetched))
           \o _results_to_entries(Tail(results), Tail(fetched))

\* a variant that saves the entries of the results to the store
entries_after_hydrate_saving(rows, search_results) ==
    rows \cup { search_results[k].entry : k \in 1..Len(search_results) }

\* the entries table after _results_to_entries: the MSEntry objects it builds
\* stay in memory, get_ms_entry only selects
entries_after_hydrate(rows, search_results) == rows

\* a variant that leaves the list in the order of the hits
sort_by_score_reverse_missing(search_results) == search_results

RECURSIVE sort_by_score_reverse(_)
\* search_results.sort(key=lambda x: x.score, reverse=True): stable
sort_by_score_reverse(search_results) ==
    IF search_results = <<>> THEN <<>>
    ELSE LET n == Len(search_results)
             last == search_results[n]
             sorted == sort_by_score_reverse(SubSeq(search_results, 1, n - 1))
             before == { k \in 1..Len(sorted) : sorted[k].score >= last.score }
             at == Cardinality(before)
         IN SubSeq(sorted, 1, at) \o <<last>> \o SubSeq(sorted, at + 1, Len(sorted))

(* ------------------------------ the calls ----------------------------- *)
\* MagicScroll.initialize and MSSearch.__init__: the store, the rows it
\* holds, and the embedding model the engine takes from the store
Initialize ==
    /\ ms_store = "unset"
    /\ \E store \in {"none", "sqlite", "milvus"} :
         /\ ms_store' = store
         /\ embed_model' \in (CASE store = "none" -> {"none"}
                                [] store = "sqlite" -> {"none", "model"}
                                [] store = "milvus" -> {"none", "no_encode", "model"})
         /\ entries' \in (IF store = "none" THEN {{}} ELSE SUBSET EntryPool)
    /\ UNCHANGED <<sq, graph_vars, fn_vars, ingest_vars>>

\* a variant of conversation_context_search that makes its fallback query
\* whatever search() returned
AfterSearch_always_retry(f, results) ==
    IF f.op = "search"
    THEN [f EXCEPT !.pc = "done", !.primary = results, !.ret = results]
    ELSE [f EXCEPT !.pc = "embed", !.phase = "fallback", !.primary = results]

\* search() has `results` to return: to its caller, or to the
\* conversation_context_search that called it, which returns them or, when
\* there are none, goes on to its fallback
AfterSearch(f, results) ==
    IF f.op = "search" \/ results # <<>>
    THEN [f EXCEPT !.pc = "done", !.primary = results, !.ret = results]
    ELSE [f EXCEPT !.pc = "embed", !.phase = "fallback", !.primary = results]

\* a variant that lets the exception out of the call
search_reraise(f) == [f EXCEPT !.pc = "propagated"]

\* except Exception of search(): return []
search_except(f) == AfterSearch(f, <<>>)

\* a call of MSSearch.search or MSSearch.conversation_context_search
SearchCall ==
    /\ ms_store # "unset"
    /\ sq.pc = "idle"
    /\ \E op \in {"search", "context"}, temporal_filter \in TemporalFilters, limit \in 0..MaxLimit :
         \E entry_types \in (IF op = "search" THEN TypeFilters ELSE {{"conversation"}}) :
            sq' = [IdleSearch EXCEPT !.pc = "embed", !.op = op, !.phase = "primary",
                                     !.entry_types = entry_types,
                                     !.temporal_filter = temporal_filter, !.limit = limit]
    /\ UNCHANGED <<ms_store, embed_model, entries, graph_vars, fn_vars, ingest_vars>>

\* query_embedding = await self._get_embedding(...) and the test after it
GetEmbedding ==
    /\ sq.pc = "embed"
    /\ \E outcome \in EncodeOutcomes :
         LET query_embedding == _get_embedding(embed_model, outcome)
             f == [sq EXCEPT !.embedding = query_embedding,
                             !.embed_failed = \/ embed_model # "model"
                                              \/ outcome.raises
                                              \/ outcome.len # vector_dim]
         IN sq' = IF sq.phase = "primary"
                  THEN IF query_embedding = 0 THEN AfterSearch(f, <<>>)
                       ELSE [f EXCEPT !.pc = "query"]
                  ELSE IF query_embedding # 0 /\ ms_store # "none"
                       THEN [f EXCEPT !.pc = "query"]
                       ELSE [f EXCEPT !.pc = "done", !.ret = f.primary]
    /\ UNCHANGED <<ms_store, embed_model, entries, graph_vars, fn_vars, ingest_vars>>

\* search(): `if not ms_store or not hasattr(ms_store, 'search_by_vector'):
\* return []`, else await ms_store.search_by_vector(...); the fallback of
\* conversation_context_search makes the same query
VectorSearch ==
    /\ sq.pc = "query"
    /\ IF ms_store = "none"
       THEN sq' = AfterSearch(sq, <<>>)
       ELSE \E answer \in StoreAnswers(ms_store, entries, sq.limit, sq.entry_types,
                                       sq.temporal_filter) :
              LET f == [sq EXCEPT !.queries = Append(@, [phase |-> sq.phase,
                                                         entry_types |-> sq.entry_types,
                                                         temporal_filter |-> sq.temporal_filter,
                                                         limit |-> sq.limit]),
                                  !.hits = answer.hits,
                                  !.fetched = <<>>,
                                  !.converted = <<>>,
                                  !.store_raised = answer.raises]
              IN sq' = IF sq.phase = "primary"
                       THEN IF answer.raises THEN search_except(f)
                            ELSE [f EXCEPT !.pc = "hydrate"]
                       ELSE IF answer.raises \/ answer.hits = <<>>
                            THEN [f EXCEPT !.pc = "done", !.ret = f.primary]
                            ELSE [f EXCEPT !.pc = "hydrate"]
    /\ UNCHANGED <<ms_store, embed_model, entries, graph_vars, fn_vars, ingest_vars>>

\* _results_to_entries(results), where get_ms_entry may fail for some hits;
\* in search() then the sort and search_results[:limit]
Hydrate ==
    /\ sq.pc = "hydrate"
    /\ \E failing \in SUBSET (1..Len(sq.hits)) :
         LET fetched == [k \in 1..Len(sq.hits) |->
                           IF sq.hits[k].id = "" \/ k \in failing THEN NoEntry
                           ELSE get_ms_entry(entries, sq.hits[k].id)]
             search_results == _results_to_entries(sq.hits, fetched)
             f == [sq EXCEPT !.fetched = fetched, !.converted = search_results]
         IN /\ sq' = IF sq.phase = "primary"
                     THEN AfterSearch(f, Prefix(sort_by_score_reverse(search_results), sq.limit))
                     ELSE [f EXCEPT !.pc = "done", !.ret = search_results]
            /\ entries' = entries_after_hydrate(entries, search_results)
    /\ UNCHANGED <<ms_store, embed_model, graph_vars, fn_vars, ingest_vars>>

SearchNext ==
    \/ Initialize
    \/ SearchCall
    \/ GetEmbedding
    \/ VectorSearch
    \/ Hydrate

SearchSpec == Init /\ [][SearchNext]_vars

\* a call, once made, is run to its end
FairSearchSpec == SearchSpec /\ WF_vars(SearchNext)

(* ------------------------- the two engines ---------------------------- *)
\* no call of store_entities_in_graph made, no connection opened
GraphUntouched == kuzu_conn = "unset" /\ \A c \in Calls : frame[c].pc = "idle"

\* MagicScroll.initialize not run
SearchUntouched == ms_store = "unset"

\* the graph merge engine and the search engine share no state: a run
\* exercises one of them
EngineNext ==
    \/ SearchUntouched /\ Next
    \/ GraphUntouched /\ SearchNext

EngineSpec == Init /\ [][EngineNext]_vars

(* ------------------- searches during ingestion merges ----------------- *)
\* one call of store_entities_in_graph with at most one entity, whose
\* statements execute
OneMerge == frame[2].pc = "idle" /\ frame[1].len <= 1 /\ nfail = 0

\* searches with limit 1 and without temporal filter, on a store of at most
\* one row that answers at most one hit
PlainSearch ==
    /\ Cardinality(entries) <= 1
    /\ Len(sq.hits) <= 1
    /\ sq.pc # "idle" => sq.limit = 1 /\ sq.temporal_filter.keys = {}

\* the statements of a merge and the steps of a search, in any order
ConcurrentNext ==
    \/ Next /\ OneMerge'
    \/ SearchNext /\ PlainSearch'

ConcurrentSpec == Init /\ [][ConcurrentNext]_vars

(* ------------------------- the record store --------------------------- *)
EntryTypeMembers == {"CONVERSATION", "DOCUMENT", "IMAGE", "CODE"}

\* entry.entry_type.value
EntryTypeValue(member) ==
    CASE member = "CONVERSATION" -> "conversation"
      [] member = "DOCUMENT" -> "document"
      [] member = "IMAGE" -> "image"
      [] member = "CODE" -> "code"

\* EntryType(row['entry_type']): the member with that value
EntryType(value) == CHOOSE member \in EntryTypeMembers : EntryTypeValue(member) = value

\* the entries save_ms_entry is called with: two ids, each with two contents
\* (created at different times) and two entry types
EntryArgs ==
    { MSEntry(id, content, entry_type, IF content = "c1" THEN 1 ELSE 2) :
        id \in StoreIds, content \in {"c1", "c4"},
        entry_type \in {"CONVERSATION", "DOCUMENT"} }

\* the tuple of VALUES (?, ?, ?, ?, ?) of an entry
RowOf(entry) ==
    Row(entry.id, entry.content, EntryTypeValue(entry.entry_type), entry.created_at)

\* the MSEntry get_ms_entry builds of a row
EntryOf(row) == MSEntry(row.id, row.content, EntryType(row.entry_type), row.created_at)

\* a variant with INSERT OR IGNORE: the row of an id that exists is kept
sqlite_save_ms_entry_ignore(rows, entry) ==
    IF \E r \in rows : r.id = entry.id THEN rows ELSE rows \cup {RowOf(entry)}

\* INSERT OR REPLACE INTO entries ...: id is the primary key
sqlite_save_ms_entry(rows, entry) ==
    { r \in rows : r.id # entry.id } \cup {RowOf(entry)}

\* SELECT ... WHERE id = ?; None when there is no row
sqlite_get_ms_entry(rows, entry_id) ==
    IF get_ms_entry(rows, entry_id) = NoEntry THEN NoMSEntry
    ELSE EntryOf(get_ms_entry(rows, entry_id))

\* DELETE FROM entries WHERE id = ?
sqlite_delete_ms_entry(rows, entry_id) == { r \in rows : r.id # entry_id }

\* MSSQLiteStore.save_ms_entry(entry): the statement and the commit execute
\* and it returns True, or one raises and it rolls back and returns False
SaveMsEntry ==
    /\ ms_store = "sqlite"
    /\ \E entry \in EntryArgs, ok \in BOOLEAN :
         /\ entries' = IF ok THEN sqlite_save_ms_entry(entries, entry) ELSE entries
         /\ st' = [st EXCEPT
               !.op = "save", !.entry_id = entry.id, !.entry = entry, !.failed = ~ok,
               !.ret_ok = ok, !.ret_entry = NoMSEntry,
               !.saved = IF ok THEN [@ EXCEPT ![entry.id] = entry] ELSE @,
               !.between = IF ok
                           THEN [i \in StoreIds |-> IF i = entry.id THEN FALSE
                                                    ELSE @[i] \/ st.saved[i] # NoMSEntry]
                           ELSE @,
               !.created = IF ok /\ get_ms_entry(entries, entry.id) = NoEntry
                           THEN [@ EXCEPT ![entry.id] = entry] ELSE @]
    /\ UNCHANGED <<ms_store, embed_model, sq, ar, graph_vars, fn_vars>>

\* MSSQLiteStore.get_ms_entry(entry_id): the entry of the row, None when there
\* is no row and None when the query raises
GetMsEntry ==
    /\ ms_store = "sqlite"
    /\ \E entry_id \in StoreIds, ok \in BOOLEAN :
         st' = [st EXCEPT
               !.op = "get", !.entry_id = entry_id, !.entry = NoMSEntry, !.failed = ~ok,
               !.ret_ok = FALSE,
               !.ret_entry = IF ok THEN sqlite_get_ms_entry(entries, entry_id) ELSE NoMSEntry]
    /\ UNCHANGED <<ms_store, embed_model, entries, sq, ar, graph_vars, fn_vars>>

\* MSSQLiteStore.delete_ms_entry(entry_id)
DeleteMsEntry ==
    /\ ms_store = "sqlite"
    /\ \E entry_id \in StoreIds, ok \in BOOLEAN :
         /\ entries' = IF ok THEN sqlite_delete_ms_entry(entries, entry_id) ELSE entries
         /\ st' = [st EXCEPT
               !.op = "delete", !.entry_id = entry_id, !.entry = NoMSEntry, !.failed = ~ok,
               !.ret_ok = ok, !.ret_entry = NoMSEntry,
               !.saved = IF ok THEN [@ EXCEPT ![entry_id] = NoMSEntry] ELSE @,
               !.between = IF ok
                           THEN [i \in StoreIds |-> IF i = entry_id THEN FALSE
                                                    ELSE @[i] \/ st.saved[i] # NoMSEntry]
                           ELSE @,
               !.created = IF ok THEN [@ EXCEPT ![entry_id] = NoMSEntry] ELSE @]
    /\ UNCHANGED <<ms_store, embed_model, sq, ar, graph_vars, fn_vars>>

StoreNext ==
    \/ Initialize
    \/ SaveMsEntry
    \/ GetMsEntry
    \/ DeleteMsEntry

StoreSpec == Init /\ [][StoreNext]_vars

(* ------------------------- the entity extractor ----------------------- *)
\* confidence_threshold: float = 0.3, on the scale of the model's scores:
\* a score of 0 is below it, the scores of SpanPool are not
confidence_threshold == 1

ExtractedEntity(text, label, confidence) ==
    [text |-> text, label |-> label, confidence |-> confidence]

\* (_gliner_available, model) after __init__ and _load_model: never checked,
\* not installed or failed to load, loaded
ExtractorStates ==
    { [gliner_available |-> "None", model |-> "none"],
      [gliner_available |-> "False", model |-> "none"],
      [gliner_available |-> "True", model |-> "loaded"] }

\* what the model predicts: spans of the pool, and one below the threshold
PredictionPool ==
    { Span(T_Go, L_person, 1), Span(T_Python, L_technology, 2), Span(T_AI, L_tool, 1),
      Span(T_AI, L_misc, 0) }

\* self.model.predict_entities(text, entity_types) raises, or returns a list
PredictOutcomes ==
    { [raises |-> TRUE, predictions |-> <<>>] }
      \cup { [raises |-> FALSE, predictions |-> ps] :
               ps \in UNION { [1..k -> PredictionPool] : k \in 0..MaxSpans } }

\* the conversation texts: empty, whitespace only, and "U: Go"
Texts == { <<>>, <<" ", "\t">>, <<"U", ":", " ", "G", "o">> }

\* the predictions converted to ExtractedEntity, those below the threshold
\* left out
Converted(predictions) ==
    LET Kept(pred) == pred.score >= confidence_threshold
        kept == SelectSeq(predictions, Kept)
    IN [k \in 1..Len(kept) |-> ExtractedEntity(kept[k].text, kept[k].label, kept[k].score)]

\* a variant with `if not text:` for `if not text or not text.strip():`
extract_entities_unstripped(text, gliner_available, model, outcome) ==
    IF text = <<>> THEN <<>>
    ELSE IF gliner_available # "True" \/ model = "none" THEN <<>>
    ELSE IF outcome.raises THEN <<>>
    ELSE Converted(outcome.predictions)

\* EntityExtractor.extract_entities(text), with what predict_entities does
extract_entities(text, gliner_available, model, outcome) ==
    IF text = <<>> \/ Strip(text) = <<>> THEN <<>>
    ELSE IF gliner_available # "True" \/ model = "none" THEN <<>>
    ELSE IF outcome.raises THEN <<>>
    ELSE Converted(outcome.predictions)

(* ------------- archive_conversation and create_ms_entry --------------- *)
RECURSIVE Join(_)
\* the str of a text
Join(chars) == IF chars = <<>> THEN "" ELSE Head(chars) \o Join(Tail(chars))

\* the gliner_entities list built of entities_data['entities']
gliner_entities(entities) ==
    [k \in 1..Len(entities) |->
        Span(entities[k].text, entities[k].label, entities[k].confidence)]

\* MSMilvusStore.save_ms_entry: an upsert by id
milvus_save_ms_entry(rows, entry) ==
    { r \in rows : r.id # entry.id } \cup {RowOf(entry)}

\* MagicScroll.save_ms_entry(entry): the rows of the store afterwards; it
\* returns entry.id whether or not the store saved
save_ms_entry(store, rows, entry, ok) ==
    IF store = "none" \/ ~ok THEN rows
    ELSE IF store = "sqlite" THEN sqlite_save_ms_entry(rows, entry)
    ELSE milvus_save_ms_entry(rows, entry)

\* the call is made: archive_conversation formats the messages of a live
\* conversation (it returns "" when there are none), create_ms_entry those
\* of conversation_data, which may be none
ArchiveCall ==
    /\ ar.pc = "idle"
    /\ ms_store # "unset"
    /\ \E op \in {"archive", "ingest"}, text \in Texts, x \in ExtractorStates :
         /\ op = "archive" => Strip(text) # <<>>
         /\ ar' = [IdleArchive EXCEPT !.pc = "extract", !.op = op, !.text = text,
                                      !.gliner_available = x.gliner_available,
                                      !.model = x.model]
    /\ UNCHANGED <<st, graph_vars, fn_vars, search_vars>>

\* extractor = get_entity_extractor(); entities_data =
\* extractor.extract_for_conversation(text), inside try/except
ExtractEntities ==
    /\ ar.pc = "extract"
    /\ \E raised \in BOOLEAN, outcome \in PredictOutcomes :
         ar' = IF raised
               THEN [ar EXCEPT !.pc = "save", !.extractor_raised = TRUE]
               ELSE [ar EXCEPT !.pc = "save", !.entities_data = TRUE,
                               !.predict_raised = outcome.raises,
                               !.entities = extract_entities(ar.text, ar.gliner_available,
                                                             ar.model, outcome)]
    /\ UNCHANGED <<st, graph_vars, fn_vars, search_vars>>

\* entry = MSConversation(...); entry_id = await self.save_ms_entry(entry);
\* then store_entities_in_graph is called: by archive_conversation if
\* entities_data, by create_ms_entry always
SaveEntry ==
    /\ ar.pc = "save"
    /\ \E id \in EntryIds, ok \in BOOLEAN :
         LET entry == MSEntry(id, Join(ar.text), "CONVERSATION", now)
         IN /\ entries' = save_ms_entry(ms_store, entries, entry, ok)
            /\ ar' = [ar EXCEPT !.entry_id = id,
                                !.saved = (ok /\ ms_store # "none"),
                                !.pc = IF ar.op = "ingest" \/ ar.entities_data
                                       THEN "graph" ELSE "done",
                                !.ret = id]
    /\ UNCHANGED <<st, ms_store, embed_model, sq, graph_vars, fn_vars>>

\* store_entities_in_graph has returned: return entry_id (or ms_entry)
ArchiveReturn ==
    /\ ar.pc = "graph"
    /\ Finished(1)
    /\ ar' = [ar EXCEPT !.pc = "done"]
    /\ UNCHANGED <<st, graph_vars, fn_vars, search_vars>>

\* the call of store_entities_in_graph the pipeline makes: entry_id is the id
\* save_ms_entry returned, and the entities are the extracted ones
FromArchive ==
    /\ frame[2].pc = "idle"
    /\ frame[1].pc # "idle" =>
         /\ ar.pc = "graph"
         /\ frame[1].entry_id = ar.entry_id
         /\ frame[1].conversation_title = "A"
         /\ frame[1].len = Len(ar.entities)
         /\ \A k \in 1..Len(trace[1]) : trace[1][k].span = gliner_entities(ar.entities)[k]

\* a store without rows: the pipeline does not use the embedding model
FreshStore == entries = {} /\ embed_model = "none"

ArchiveNext ==
    \/ Initialize /\ FreshStore'
    \/ ArchiveCall
    \/ ExtractEntities
    \/ SaveEntry
    \/ Next /\ FromArchive'
    \/ ArchiveReturn

ArchiveSpec == Init /\ [][ArchiveNext]_vars

(* ============================== claims ================================ *)
\* the largest confidence among the entries of a non-empty log
MaxConfidence(log) ==
    CHOOSE m \in { log[k].confidence : k \in 1..Len(log) } :
        \A k \in 1..Len(log) : log[k].confidence <= m

\* two texts that differ at most in casing and surrounding whitespace
SameModuloCase(a, b) == Lower(Strip(a)) = Lower(Strip(b))

\* C1: after N >= 1 merges to a (variant, normalized_key) the node exists and
\* has mention_count = N, confidence = the largest of the N confidences,
\* first_seen = the time of the first merge and last_seen = the time of the
\* last merge.
C1_MergeAccumulates ==
    \A tk \in DOMAIN merges :
        LET log == merges[tk]
            N == Len(log)
            rows == ByName(nodes[tk[1]], tk[2])
        IN N >= 1 =>
             /\ rows # {}
             /\ \A p \in rows :
                  /\ p.mention_count = N
                  /\ p.confidence = MaxConfidence(log)
                  /\ p.first_seen = log[1].time
                  /\ p.last_seen = log[N].time

\* two merges to one key, the larger confidence first and the clock advanced
\* in between
C1_Witness ==
    \E tk \in DOMAIN merges :
        /\ Len(merges[tk]) = 2
        /\ merges[tk][1].confidence > merges[tk][2].confidence
        /\ merges[tk][1].time < merges[tk][2].time

\* C2: in every reachable state each entity table holds at most one node per
\* normalized key: no two nodes of a table have names that differ only in
\* casing or surrounding whitespace, whatever was merged and in which order.
C2_OneNodePerKey ==
    \A tbl \in EntityTables : \A p, q \in nodes[tbl] :
        (p.normalized_name = q.normalized_name \/ SameModuloCase(p.name, q.name)) => p = q

\* two spans of different casing and spacing were merged into one table
C2_Witness ==
    \E tk \in DOMAIN merges :
        /\ Len(merges[tk]) = 2
        /\ merges[tk][1].text # merges[tk][2].text
        /\ SameModuloCase(merges[tk][1].text, merges[tk][2].text)
        /\ Cardinality(nodes[tk[1]]) = 1

\* the iterations <<call, index>> that took the branch of `tbl` for `key` and
\* whose merge statement executed
MergedBy(tbl, key) ==
    { ci \in Calls \X (1..MaxSpans) :
        /\ ci[2] <= Len(trace[ci[1]])
        /\ trace[ci[1]][ci[2]].route = tbl
        /\ Lower(Strip(trace[ci[1]][ci[2]].span.text)) = key
        /\ trace[ci[1]][ci[2]].merge_ok }

AllFinished == \A c \in Calls : Finished(c)

\* C3: when merges of concurrent calls (for the same or different entry_ids)
\* interleave, no update is lost: once every call has finished, a key merged K
\* times over all calls has mention_count = K and the largest confidence of
\* those K merges.
C3_NoLostUpdate ==
    AllFinished =>
        \A tk \in DOMAIN merges :
            LET done == MergedBy(tk[1], tk[2])
                K == Cardinality(done)
            IN K >= 1 =>
                 /\ ByName(nodes[tk[1]], tk[2]) # {}
                 /\ \A p \in ByName(nodes[tk[1]], tk[2]) :
                      /\ p.mention_count = K
                      /\ \A ci \in done : p.confidence >= trace[ci[1]][ci[2]].span.score
                      /\ \E ci \in done : p.confidence = trace[ci[1]][ci[2]].span.score

\* two calls merged one key, the second while the first was still running and
\* with the smaller confidence, and both have finished
C3_Witness ==
    /\ AllFinished
    /\ \E tk \in DOMAIN merges :
         /\ Len(merges[tk]) = 2
         /\ merges[tk][1].call # merges[tk][2].call
         /\ merges[tk][2].overlap
         /\ merges[tk][2].confidence < merges[tk][1].confidence

\* C4: in every reachable state each relationship table holds at most one edge
\* per (entity node, MSEntry node) pair, however often the pair was linked.
C4_OneEdgePerPair ==
    \A rt \in RelTables : \A r, s \in rels[rt] :
        (r.src = s.src /\ r.dst = s.dst) => r = s

\* a Technology node was linked to the same entry twice
C4_Witness ==
    \E k \in DOMAIN links : k[1] = "Technology" /\ Len(links[k]) = 2

\* the descriptive attributes of an edge: all but its identity, its
\* confidence and its counter
Descriptive(r) ==
    [f \in DOMAIN r \ {"id", "src", "dst", "confidence", "mentioned_count"} |-> r[f]]

\* the call c takes a link step whose statement binds its endpoints
LinksNow(c) ==
    /\ frame[c].pc = "link"
    /\ frame'[c].pc # "link"
    /\ trace'[c][Len(trace[c])].bound

\* C5: a repeat link onto an existing edge sets the edge's confidence to the
\* larger of the existing and the new confidence and leaves every descriptive
\* attribute of the edge at the value it had.
C5_RepeatLinkKeepsAttributes ==
    [][\A c \in Calls :
         LinksNow(c) =>
            LET tbl == Outcome(frame[c].entity)
                conf == frame[c].entity.score
            IN \A r \in Between(rels[RelOf(tbl)], Pairs(c, tbl)) :
                 \E s \in rels'[RelOf(tbl)] :
                    /\ s.id = r.id /\ s.src = r.src /\ s.dst = r.dst
                    /\ s.confidence = (IF conf > r.confidence THEN conf ELSE r.confidence)
                    /\ Descriptive(s) = Descriptive(r)
                    /\ DOMAIN s = DOMAIN r]_vars

\* an Organization was linked to one entry twice, the second time with the
\* smaller confidence
C5_Witness ==
    \E k \in DOMAIN links :
        /\ k[1] = "Organization"
        /\ Len(links[k]) = 2
        /\ links[k][2].confidence < links[k][1].confidence

\* the edges of relationship table RelOf(tbl) between the node of `key` and
\* the MSEntry node of `entry_id`
EdgesOf(tbl, key, entry_id) ==
    Between(rels[RelOf(tbl)], Bound(nodes[tbl], nodes["MSEntry"], key, entry_id))

\* C6: after k >= 1 links of one Person to one entry the DISCUSSED_IN edge's
\* mentioned_count is k; ORG_IN and TECH_IN edges have no mention counter, and
\* a step changes nothing of such an edge but its confidence.
C6_MentionCounter ==
    /\ [](/\ \A k \in DOMAIN links :
               (k[1] = "Person" /\ Len(links[k]) >= 1) =>
                   /\ EdgesOf("Person", k[2], k[3]) # {}
                   /\ \A r \in EdgesOf("Person", k[2], k[3]) :
                          r.mentioned_count = Len(links[k])
          /\ \A r \in rels["ORG_IN"] \cup rels["TECH_IN"] :
               "mentioned_count" \notin DOMAIN r)
    /\ [][\A rt \in {"ORG_IN", "TECH_IN"} : \A r \in rels[rt] :
             \E s \in rels'[rt] : [s EXCEPT !.confidence = r.confidence] = r]_vars

\* a Person was linked to one entry twice
C6_Witness ==
    \E k \in DOMAIN links : k[1] = "Person" /\ Len(links[k]) = 2

\* the text has no character other than white space
IsBlank(text) == \A k \in 1..Len(text) : text[k] \in WhiteSpace

\* the indices of the iterations of call c that satisfy P
Iterations(c, P(_)) == { j \in 1..Len(trace[c]) : P(trace[c][j]) }

\* the route the documentation gives a span with non-empty text
DocumentedRoute(e) ==
    IF Lower(e.label) = L_person THEN "Person"
    ELSE IF Lower(e.label) = L_organization THEN "Organization"
    ELSE IF _is_technology_term(Strip(e.text)) THEN "Technology"
    ELSE "Topic"

\* C7: every span with non-empty text is routed by its label: person ->
\* Person, organization -> Organization, every other label -> Technology if
\* is_technology_term(text) else Topic; none is left unrouted.
C7_EverySpanRouted ==
    \A c \in Calls : \A j \in 1..Len(trace[c]) :
        ~IsBlank(trace[c][j].span.text) =>
            /\ trace[c][j].route = DocumentedRoute(trace[c][j].span)
            /\ trace[c][j].route # "none"

SumCounts(counts) ==
    counts.person + counts.organization + counts.technology + counts.topic

TookBranch(entry) == entry.route \in EntityTables
IsBlankEntry(entry) == IsBlank(entry.span.text)

\* the call c starts an iteration on a span with blank text
ReadsBlank(c) ==
    /\ Len(trace'[c]) = Len(trace[c]) + 1
    /\ IsBlank(trace'[c][Len(trace'[c])].span.text)

\* C8: a span whose text is empty or only white space is skipped without
\* error: the iteration leaves every node and edge table and every count as
\* it was and the loop goes on; a returned call's counts sum to the number of
\* its spans that took a branch, so one blank and one stored span sum to 1.
C8_BlankSkipped ==
    /\ [][\A c \in Calls :
            ReadsBlank(c) =>
               /\ nodes' = nodes
               /\ rels' = rels
               /\ frame'[c].counts = frame[c].counts
               /\ frame'[c].pc = "loop"
               /\ frame'[c].i = frame[c].i + 1]_vars
    /\ [](\A c \in Calls :
            frame[c].pc = "returned" =>
               /\ SumCounts(frame[c].ret) = Cardinality(Iterations(c, TookBranch))
               /\ Iterations(c, IsBlankEntry) \cap Iterations(c, TookBranch) = {})

\* a call of one blank span and one person span has returned counts of sum 1
C8_Witness ==
    \E c \in Calls :
        /\ frame[c].pc = "returned"
        /\ Len(trace[c]) = 2
        /\ IsBlank(trace[c][1].span.text) /\ trace[c][1].span.text # <<>>
        /\ trace[c][2].route = "Person"
        /\ SumCounts(frame[c].ret) = 1

\* the node the merge of an iteration left, and the edge its link left
NodeOf(entry) == ByName(nodes[entry.route], Lower(Strip(entry.span.text)))
EdgeOf(entry, entry_id) == EdgesOf(entry.route, Lower(Strip(entry.span.text)), entry_id)

\* C9: a failure merging or linking one entity does not abort the call: a
\* call that holds the connection never ends in the outer except, it returns
\* after one iteration per span, and every span that took a branch and whose
\* own statements executed has its node, and its edge when the statement
\* bound its endpoints.
C9_FailureDoesNotAbort ==
    /\ [][\A c \in Calls : Running(c) => frame'[c].pc # "raised"]_vars
    /\ [](\A c \in Calls :
            frame[c].pc = "returned" =>
               /\ Len(trace[c]) = frame[c].len
               /\ \A j \in 1..Len(trace[c]) :
                    LET entry == trace[c][j]
                    IN TookBranch(entry) =>
                         /\ entry.merge_ok => NodeOf(entry) # {}
                         /\ entry.bound => EdgeOf(entry, frame[c].entry_id) # {})

\* the first merge of a call failed and its second span was merged and linked
C9_Witness ==
    \E c \in Calls :
        /\ frame[c].pc = "returned"
        /\ Len(trace[c]) = 2
        /\ TookBranch(trace[c][1]) /\ ~trace[c][1].merge_ok
        /\ trace[c][2].merge_ok /\ trace[c][2].bound
        /\ EdgeOf(trace[c][2], frame[c].entry_id) # {}

\* the iterations of call c whose merge and link both executed
StoredBy(c, tbl) ==
    { j \in 1..Len(trace[c]) :
        trace[c][j].route = tbl /\ trace[c][j].merge_ok /\ trace[c][j].link_ok }

\* the iterations of call c of which a statement failed
FailedIn(c) ==
    { j \in 1..Len(trace[c]) :
        TookBranch(trace[c][j]) /\ ~(trace[c][j].merge_ok /\ trace[c][j].link_ok) }

\* C10: the returned count of each variant is the number of its entities
\* whose merge and link both succeeded during the call, so after a failed
\* merge or link the counts sum to less than the number of non-empty spans.
C10_CountsAreStored ==
    \A c \in Calls :
        frame[c].pc = "returned" =>
            /\ \A tbl \in EntityTables :
                 frame[c].ret[CountKey(tbl)] = Cardinality(StoredBy(c, tbl))
            /\ FailedIn(c) # {} =>
                 SumCounts(frame[c].ret)
                    < Cardinality({ j \in 1..Len(trace[c]) : ~IsBlankEntry(trace[c][j]) })

\* the first call was handed the batch [Python/technology, Jane Doe/person]
\* for entry E1, every statement of it executed, and no other call was made
ScenarioDone ==
    /\ frame[1].pc = "returned"
    /\ frame[1].entry_id = "E1"
    /\ frame[1].entry_ok
    /\ Len(trace[1]) = 2
    /\ trace[1][1].span.text = T_Python /\ trace[1][1].span.label = L_technology
    /\ trace[1][2].span.text = T_JaneDoe /\ trace[1][2].span.label = L_person
    /\ \A j \in 1..2 : trace[1][j].merge_ok /\ trace[1][j].link_ok
    /\ \A c \in Calls \ {1} : frame[c].pc = "idle"

\* C12: from an empty graph, the batch [Python/technology, Jane Doe/person]
\* for entry E1 leaves exactly one Technology node, of category
\* programming_language, with one TECH_IN edge to E1, exactly one Person node
\* with one DISCUSSED_IN edge to E1, each node with mention_count 1, no other
\* entity node, and returns technology = 1, person = 1.
C12_Scenario ==
    ScenarioDone =>
        /\ \E t \in nodes["Technology"], p \in nodes["Person"], e \in nodes["MSEntry"] :
             /\ nodes["Technology"] = {t} /\ nodes["Person"] = {p} /\ nodes["MSEntry"] = {e}
             /\ e.entry_id = "E1"
             /\ t.name = T_Python /\ t.category = "programming_language"
             /\ t.mention_count = 1
             /\ p.name = T_JaneDoe /\ p.mention_count = 1
             /\ \E r \in rels["TECH_IN"] :
                  rels["TECH_IN"] = {r} /\ r.src = t.id /\ r.dst = e.id
             /\ \E r \in rels["DISCUSSED_IN"] :
                  rels["DISCUSSED_IN"] = {r} /\ r.src = p.id /\ r.dst = e.id
        /\ nodes["Organization"] = {} /\ nodes["Topic"] = {}
        /\ rels["ORG_IN"] = {} /\ rels["TOPIC_IN"] = {}
        /\ frame[1].ret = [person |-> 1, organization |-> 0, technology |-> 1, topic |-> 0]

C12_Witness == ScenarioDone /\ Cardinality(nodes["Technology"]) = 1

\* the same letter, in whichever case
SameLetter(a, b) ==
    a = b \/ \E k \in 1..Len(UpperChars) : {a, b} = {UpperChars[k], LowerChars[k]}

\* x[lo..hi] is x without some white space at its ends
IsCore(x, lo, hi) ==
    /\ \A k \in 1..(lo - 1) : x[k] \in WhiteSpace
    /\ \A k \in (hi + 1)..Len(x) : x[k] \in WhiteSpace

\* x and y differ only in letter case and in white space at their ends
DifferOnlyInCaseAndPadding(x, y) ==
    \E lx \in 1..(Len(x) + 1), ly \in 1..(Len(y) + 1) :
        \E n \in 0..Len(x) :
            /\ lx + n - 1 <= Len(x) /\ ly + n - 1 <= Len(y)
            /\ IsCore(x, lx, lx + n - 1) /\ IsCore(y, ly, ly + n - 1)
            /\ \A k \in 0..(n - 1) : SameLetter(x[lx + k], y[ly + k])

\* C13: normalize_entity_name is idempotent, and gives two names that differ
\* only in letter case or surrounding white space the same key.
C13_NormalizeIdempotentInsensitive ==
    res.op = "normalize" =>
        /\ res.again = res.text
        /\ DifferOnlyInCaseAndPadding(arg.text, arg.other) => res.text = res.other

\* two names of different length and case were given one key that is neither
C13_Witness ==
    /\ res.op = "normalize"
    /\ DifferOnlyInCaseAndPadding(arg.text, arg.other)
    /\ Len(arg.text) # Len(arg.other)
    /\ res.text = res.other
    /\ res.text \notin {arg.text, arg.other, <<>>}

\* the rules of each variant, in the order of the source
TechnologyRules ==
    << [category |-> "programming_language", terms |-> tech_terms_programming_language],
       [category |-> "frontend_framework", terms |-> tech_terms_frontend_framework],
       [category |-> "backend_framework", terms |-> tech_terms_backend_framework],
       [category |-> "database", terms |-> tech_terms_database],
       [category |-> "infrastructure", terms |-> tech_terms_infrastructure] >>
TopicRules ==
    << [category |-> "ai_ml", terms |-> topic_terms_ai_ml],
       [category |-> "web_development", terms |-> topic_terms_web_development],
       [category |-> "business", terms |-> topic_terms_business],
       [category |-> "design", terms |-> topic_terms_design] >>

\* the rules with a term that occurs in the text
Matching(rules, lowered) ==
    { i \in 1..Len(rules) :
        \E k \in 1..Len(rules[i].terms) : IsSubstr(rules[i].terms[k], lowered) }

\* the category of the first matching rule, or the generic one
FirstMatch(rules, generic, lowered) ==
    IF Matching(rules, lowered) = {} THEN generic
    ELSE rules[CHOOSE i \in Matching(rules, lowered) :
                 \A j \in Matching(rules, lowered) : i <= j].category

\* C14: categorize_entity returns the category of the first rule, in the
\* fixed order, with a term that is a substring of the lower-cased text, and
\* the generic category (general_tech for technology, general for topic and
\* for any other variant) when no rule matches.
C14_FirstRuleWins ==
    res.op = "categorize" =>
        res.category =
            (IF arg.entity_type = "technology"
             THEN FirstMatch(TechnologyRules, "general_tech", Lower(arg.text))
             ELSE IF arg.entity_type = "topic"
             THEN FirstMatch(TopicRules, "general", Lower(arg.text))
             ELSE "general")

\* a text with terms of two rules got the category of the earlier rule
C14_Witness ==
    /\ res.op = "categorize"
    /\ arg.entity_type = "technology"
    /\ Cardinality(Matching(TechnologyRules, Lower(arg.text))) >= 2
    /\ 3 \in Matching(TechnologyRules, Lower(arg.text))
    /\ res.category = "programming_language"

\* a list of SearchResult objects, each with an entry and a score
WellFormedResults(results) ==
    \A k \in 1..Len(results) :
        /\ DOMAIN results[k] = {"entry", "score", "source"}
        /\ results[k].entry # NoEntry
        /\ results[k].entry.entry_type \in EntryTypes
        /\ results[k].score \in Nat

\* a dictionary of the four counts
WellFormedCounts(counts) ==
    /\ DOMAIN counts = DOMAIN ZeroCounts
    /\ \A k \in DOMAIN counts : counts[k] \in Nat

\* C11: no failure of a collaborator leaves store_entities_in_graph,
\* MSSearch.search or MSSearch.conversation_context_search as an exception:
\* a call that has ended has returned a well-formed result, empty (all-zero
\* counts, the empty list) when the call itself was cut short.
C11_NoFailurePropagates ==
    /\ sq.pc \in {"idle", "embed", "query", "hydrate", "done"}
    /\ sq.pc = "done" => WellFormedResults(sq.ret)
    /\ (sq.pc = "done" /\ sq.op = "search" /\ sq.store_raised) => sq.ret = <<>>
    /\ \A c \in Calls :
         /\ frame[c].pc \in {"idle", "entry", "loop", "link", "returned", "raised"}
         /\ Finished(c) => WellFormedCounts(frame[c].ret)
         /\ frame[c].pc = "raised" => frame[c].ret = ZeroCounts

\* the vector store raised during a search, and the search returned []
C11_Witness ==
    /\ sq.pc = "done"
    /\ sq.op = "search"
    /\ sq.store_raised
    /\ sq.ret = <<>>

\* C15: when the embedding step fails (no model, the model raises, or the
\* vector's length is not 384), MSSearch.search returns the empty list,
\* without raising and without a query of the vector store.
C15_NoEmbeddingNoResults ==
    (sq.op = "search" /\ sq.embed_failed) =>
        /\ sq.pc \in {"embed", "done"}
        /\ sq.queries = <<>>
        /\ sq.pc = "done" => sq.ret = <<>>

\* a search whose model returned a vector of the wrong length has returned,
\* on a store that holds rows
C15_Witness ==
    /\ sq.op = "search"
    /\ sq.pc = "done"
    /\ sq.embed_failed
    /\ embed_model = "model"
    /\ ms_store = "sqlite"
    /\ entries # {}

\* _results_to_entries has run on the hits of the last query
Hydrated == sq.hits # <<>> /\ Len(sq.fetched) = Len(sq.hits)

\* the hits that either source yields a record for
Yielding ==
    { i \in 1..Len(sq.hits) :
        \/ sq.fetched[i] # NoEntry
        \/ sq.hits[i].content # "" /\ sq.hits[i].entry_type # "" }

C17_SortedAndLimited ==
    (sq.op = "search" /\ sq.pc = "done") =>
        /\ Len(sq.ret) <= sq.limit
        /\ \A k \in 1..(Len(sq.ret) - 1) : sq.ret[k].score >= sq.ret[k + 1].score

\* a search returned two results for hits that came lowest score first
C17_Witness ==
    /\ sq.op = "search"
    /\ sq.pc = "done"
    /\ Len(sq.hits) = 2
    /\ sq.hits[1].score < sq.hits[2].score
    /\ Len(sq.ret) = 2
    /\ sq.ret[1].score = sq.hits[2].score

\* the entry passes the filters of the call
PassesFilters(entry, entry_types, temporal_filter) ==
    /\ entry_types # {} => entry.entry_type \in entry_types
    /\ "start" \in temporal_filter.keys => entry.created_at >= temporal_filter.start
    /\ "end" \in temporal_filter.keys => entry.created_at <= temporal_filter.end

\* C18: every result MSSearch.search returns for a call with an entry-type
\* filter and/or a temporal filter has a record whose entry_type is in the
\* filter and whose created_at is within the inclusive bounds, also when the
\* vector store does not apply the filters itself.
C18_ResultsPassFilters ==
    (sq.op = "search" /\ sq.pc = "done") =>
        \A k \in 1..Len(sq.ret) :
            PassesFilters(sq.ret[k].entry, sq.entry_types, sq.temporal_filter)

\* a filtered search on the SQLite store has returned results; the store
\* applies the filters itself
C18_FilteredByStore ==
    /\ sq.op = "search"
    /\ sq.pc = "done"
    /\ ms_store = "sqlite"
    /\ sq.entry_types # {}
    /\ sq.temporal_filter # NoTemporal
    /\ sq.ret # <<>>

\* the queries of the fallback
Retries == { k \in 1..Len(sq.queries) : sq.queries[k].phase = "fallback" }

\* C19: one call of conversation_context_search puts the conversation entry
\* type on its primary query, retries only if the primary path returned no
\* result, retries at most once (at most two queries of the vector store),
\* and ends.
C19_OneRetryAtMost ==
    /\ [](sq.op = "context" =>
            /\ \A k \in 1..Len(sq.queries) :
                 sq.queries[k].phase = "primary" =>
                     sq.queries[k].entry_types = {"conversation"}
            /\ sq.phase = "fallback" => sq.primary = <<>>
            /\ Cardinality(Retries) <= 1
            /\ Len(sq.queries) <= 2)
    /\ (sq.pc # "idle") ~> (sq.pc = "done")

\* a conversation_context_search has ended after two queries
C19_Witness ==
    /\ sq.op = "context"
    /\ sq.pc = "done"
    /\ Len(sq.queries) = 2
    /\ Cardinality(Retries) = 1

\* the filters of query q are weaker than the filters of the call: an entry
\* type more, or no type filter, or a temporal bound less, and none stronger
Relaxed(q) ==
    /\ q.entry_types = {} \/ sq.entry_types \subseteq q.entry_types
    /\ q.temporal_filter.keys \subseteq sq.temporal_filter.keys
    /\ \/ q.entry_types = {} /\ sq.entry_types # {}
       \/ q.entry_types # sq.entry_types
       \/ q.temporal_filter.keys # sq.temporal_filter.keys

\* C20: the retry of conversation_context_search is issued with filters
\* relaxed relative to the primary query.
C20_RetryRelaxed ==
    sq.op = "context" => \A k \in Retries : Relaxed(sq.queries[k])

\* C21: for every entry e, save_ms_entry(e) followed by get_ms_entry(e.id),
\* with any calls on other ids in between, returns a record whose content and
\* entry_type are those of e (the save returned True and the query of the get
\* executed).
C21_RoundTrip ==
    (st.op = "get" /\ ~st.failed /\ st.saved[st.entry_id] # NoMSEntry) =>
        /\ st.ret_entry # NoMSEntry
        /\ st.ret_entry.id = st.entry_id
        /\ st.ret_entry.content = st.saved[st.entry_id].content
        /\ st.ret_entry.entry_type = st.saved[st.entry_id].entry_type

\* get_ms_entry("e1") returned the document saved under e1 over an earlier
\* row, after a save under e2 in between
C21_Witness ==
    /\ st.op = "get"
    /\ st.entry_id = "e1"
    /\ st.between["e1"]
    /\ st.ret_entry = MSEntry("e1", "c4", "DOCUMENT", 2)
    /\ st.created["e1"] # st.saved["e1"]

\* C22: once a record with a given entry_id has been created in the record
\* store, its content, entry_type and created_at are never changed by a later
\* save.
C22_CreatedOnce ==
    \A i \in StoreIds :
        (st.created[i] # NoMSEntry) =>
            /\ get_ms_entry(entries, i) # NoEntry
            /\ sqlite_get_ms_entry(entries, i).content = st.created[i].content
            /\ sqlite_get_ms_entry(entries, i).entry_type = st.created[i].entry_type
            /\ sqlite_get_ms_entry(entries, i).created_at = st.created[i].created_at

\* the steps of MSSearch.search and conversation_context_search
SearchStep == sq' # sq

\* the graph is what the executed merges and links made of it
GraphIsTheMerges ==
    /\ \A tbl \in EntityTables, key \in AllKeys :
         LET ms == merges[<<tbl, key>>]
             found == ByName(nodes[tbl], key)
         IN /\ Cardinality(found) = IF ms = <<>> THEN 0 ELSE 1
            /\ \A n \in found :
                 /\ n.mention_count = Len(ms)
                 /\ n.confidence = MaxConfidence(ms)
                 /\ n.first_seen = ms[1].time
                 /\ n.last_seen = ms[Len(ms)].time
    /\ \A tbl \in EntityTables :
         Cardinality(rels[RelOf(tbl)]) =
             Cardinality({ k \in DOMAIN links : k[1] = tbl /\ links[k] # <<>> })

\* C23: MSSearch.search and conversation_context_search are read-only: for
\* every outcome, a step of theirs leaves the record store, the vector store
\* and the graph store as they are, and a merge that searches interleave with
\* ends in the state its own statements make.
C23_SearchReadOnly ==
    /\ [][SearchStep => /\ entries' = entries
                        /\ ms_store' = ms_store
                        /\ nodes' = nodes
                        /\ rels' = rels]_vars
    /\ []GraphIsTheMerges

\* a search has returned a result between the merge of an entity and its link
C23_Witness ==
    /\ frame[1].pc = "link"
    /\ sq.pc = "done"
    /\ sq.ret # <<>>
    /\ nodes["Person"] # {}

\* extract_entities was called with an empty or whitespace-only text, without
\* a loaded model, or with a model whose prediction raised
Degraded ==
    \/ Strip(ar.text) = <<>>
    \/ ar.gliner_available # "True"
    \/ ar.model = "none"
    \/ ar.predict_raised

\* no entity node and no edge in the graph
NoEntityStored ==
    /\ \A tbl \in EntityTables : nodes[tbl] = {} /\ rels[RelOf(tbl)] = {}
    /\ Finished(1) => frame[1].ret = ZeroCounts

\* C24: extract_entities returns the empty list, without raising, when the
\* text is empty or whitespace-only, when the model is not installed or not
\* loaded, and when the prediction raises; the pipeline then stores no entity.
C24_DegradesToNoEntities ==
    (ar.pc \in {"save", "graph", "done"} /\ ~ar.extractor_raised /\ Degraded) =>
        /\ ar.entities_data
        /\ ar.entities = <<>>
        /\ NoEntityStored

\* an ingestion of a whitespace-only text has gone through the graph store
C24_Witness ==
    /\ ar.pc = "done"
    /\ ar.op = "ingest"
    /\ ar.text # <<>>
    /\ Strip(ar.text) = <<>>
    /\ ar.gliner_available = "True"
    /\ frame[1].pc = "returned"
    /\ nodes["MSEntry"] # {}

\* C30: after archive_conversation or create_ms_entry has completed, every
\* MSEntry node it created has a record with the same entry_id in the record
\* store, and no entity is linked to an entry_id whose record was not saved.
C30_NodeHasRecord ==
    ar.pc = "done" =>
        /\ \A n \in nodes["MSEntry"] : get_ms_entry(entries, n.entry_id) # NoEntry
        /\ (\E tbl \in EntityTables : rels[RelOf(tbl)] # {}) => ar.saved

\* the one row of a key in a table
TheNode(rows, key) == CHOOSE n \in rows : n.normalized_name = key

\* C25: a merge onto an existing entity node changes only confidence (to the
\* larger of the new and the existing one), mention_count (by exactly 1) and
\* last_seen; first_seen, the stored name and the category keep the values
\* written when the node was created; no other step changes the node.
C25_MergeFrame ==
    [][\A tbl \in EntityTables, key \in AllKeys :
         ByName(nodes[tbl], key) # {} =>
            LET old == TheNode(nodes[tbl], key)
                new == TheNode(nodes'[tbl], key)
                log == merges'[<<tbl, key>>]
            IN /\ ByName(nodes'[tbl], key) # {}
               /\ IF log = merges[<<tbl, key>>]
                  THEN new = old
                  ELSE /\ new.id = old.id
                       /\ new.name = old.name
                       /\ new.first_seen = old.first_seen
                       /\ tbl \in {"Technology", "Topic"} => new.category = old.category
                       /\ new.mention_count = old.mention_count + 1
                       /\ new.confidence = CaseWhenGreater(log[Len(log)].confidence,
                                                           old.confidence)
                       /\ new.last_seen = log[Len(log)].time]_vars

\* an organization merged twice, the second time later, with another casing
\* and a larger confidence, still has its first name and first_seen
C25_Witness ==
    \E n \in nodes["Organization"] :
        LET log == merges[<<"Organization", n.normalized_name>>]
        IN /\ Len(log) = 2
           /\ log[2].confidence > log[1].confidence
           /\ Strip(log[2].text) # n.name
           /\ n.name = Strip(log[1].text)
           /\ n.confidence = log[2].confidence
           /\ n.first_seen < n.last_seen
           /\ n.mention_count = 2

\* the scores of a list do not increase
Descending(results) ==
    \A k \in 1..(Len(results) - 1) : results[k].score >= results[k + 1].score

\* C26: conversation_context_search returns at most `limit` results, ordered
\* by score descending, on every path, the retry path included.
C26_ContextSortedAndLimited ==
    (sq.op = "context" /\ sq.pc = "done") =>
        /\ Len(sq.ret) <= sq.limit
        /\ Descending(sq.ret)

\* the relationship statement that call c is about to execute binds no pair
LinksNothing(c) ==
    /\ frame[c].pc = "link"
    /\ Pairs(c, Outcome(frame[c].entity)) = {}

\* C27: each relationship edge connects an entity node and an MSEntry node
\* that both exist; a link attempted while an endpoint is missing creates no
\* edge and changes nothing in the graph.
C27_EdgesHaveEndpoints ==
    /\ [](\A tbl \in EntityTables : \A r \in rels[RelOf(tbl)] :
             /\ \E n \in nodes[tbl] : n.id = r.src
             /\ \E e \in nodes["MSEntry"] : e.id = r.dst)
    /\ [][\A c \in Calls :
            (LinksNothing(c) /\ frame'[c].pc # "link") =>
                nodes' = nodes /\ rels' = rels]_vars

\* a person was linked although the MSEntry merge of the call had failed: the
\* statement executed, bound nothing, and there is no edge
C27_Witness ==
    \E c \in Calls :
        /\ Finished(c)
        /\ ~frame[c].entry_ok
        /\ \E k \in 1..Len(trace[c]) :
             /\ trace[c][k].route = "Person"
             /\ trace[c][k].merge_ok
             /\ trace[c][k].link_ok
             /\ ~trace[c][k].bound
        /\ rels["DISCUSSED_IN"] = {}
        /\ nodes["Person"] # {}

RECURSIVE SumMentioned(_)
\* the sum of mentioned_count over a set of edges
SumMentioned(edges) ==
    IF edges = {} THEN 0
    ELSE LET r == CHOOSE x \in edges : TRUE
         IN r.mentioned_count + SumMentioned(edges \ {r})

\* no call is between a merge and its link, and no statement has raised
Quiescent == nfail = 0 /\ \A c \in Calls : frame[c].pc # "link"

\* C28: in every state in which no call is between an entity's merge and its
\* link and no merge or link has failed, each Person node's mention_count is
\* the sum of mentioned_count over its DISCUSSED_IN edges.
C28_MentionsAreLinks ==
    Quiescent =>
        \A p \in nodes["Person"] :
            p.mention_count =
                SumMentioned({ r \in rels["DISCUSSED_IN"] : r.src = p.id })

\* two calls whose statements interleaved have both mentioned one person
C28_Witness ==
    /\ Quiescent
    /\ \A c \in Calls : frame[c].pc = "returned"
    /\ \E p \in nodes["Person"] :
         /\ p.mention_count = 2
         /\ \E k \in 1..2 : merges[<<"Person", p.normalized_name>>][k].overlap

\* the spans the calls have processed
Processed == UNION { { trace[c][k].span : k \in 1..Len(trace[c]) } : c \in Calls }

\* a span with text whose label is neither person nor organization
OtherLabel(e) ==
    /\ Routing[e].text # <<>>
    /\ entity_type(e) \notin {L_person, L_organization}

\* the category the branch of a span stores
CategoryOf(e) ==
    IF Branch(e) = "Technology" THEN categorize_entity(Routing[e].text, "technology")
    ELSE IF Branch(e) = "Topic" THEN categorize_entity(Routing[e].text, "topic")
    ELSE "none"

\* C29: for spans with a label other than person and organization, the
\* variant and the category are a function of the normalized key alone: two
\* such spans with the same key route to the same variant with the same
\* category.
C29_RouteByKeyAlone ==
    \A e1 \in Processed, e2 \in Processed :
        (OtherLabel(e1) /\ OtherLabel(e2) /\ Routing[e1].key = Routing[e2].key) =>
            /\ Branch(e1) = Branch(e2)
            /\ CategoryOf(e1) = CategoryOf(e2)
====
